---- MODULE Spec2Model ----
(***************************************************************************)
(* Run orchestrator of mintaborate: the event log (lib/runs/events.ts),    *)
(* the run store (lib/runs/service.ts), the SSE event stream               *)
(* (app/api/runs/[runId]/events/route.ts) and the orchestrator             *)
(* (lib/execution/orchestrator.ts).                                        *)
(*                                                                         *)
(* Every `await` of the source is a point where another activity of the    *)
(* Node.js process (or another request handler) can run, so an action of   *)
(* this module is the code between two awaits that touch shared state.     *)
(***************************************************************************)
EXTENDS Integers, Sequences, FiniteSets, TLC

(***************************************************************************)
(* Bounds of the model.                                                    *)
(***************************************************************************)
MaxEvents == 4
MaxCalls == 2
MaxLimit == 2
StepBudget == 2
TokenBudget == 4
CostCap == 3
Unlimited == 40
CallTokens == 1
CallCost == 1
MaxCitations == 1
MaxAnswerSteps == 2
MaxSignals == 2
MaxClaims == 1
MaxStarts == 3

(***************************************************************************)
(* Program constants.                                                      *)
(***************************************************************************)
PollLimit == 100
PASS_THRESHOLD == 7
\* scores are kept in hundredths, the precision of toFixed(2)
Scale == 100

(***************************************************************************)
(* Identities.                                                             *)
(***************************************************************************)
Runs == {"r1", "r2"}
Workers == <<"w1", "w2">>
WorkerIds == {Workers[i] : i \in DOMAIN Workers}
Tasks == {"t1", "t2"}
Phases == {"baseline", "optimized"}
EventTypes == {"run.queued", "run.ingesting", "run.ingestion_complete", "run.tasks_generated",
               "run.workers_ready", "worker.started", "task.step.retrieved",
               "task.step.created", "task.execution.completed", "task.error",
               "run.canceled", "run.completed", "run.failed"}
ErrorCodes == {"RUN_FATAL", "TASK_EXECUTION_ERROR", "SKILL_OPTIMIZATION_ERROR"}
Appenders == {"a1", "a2"}
TerminalStatuses == {"completed", "failed", "canceled"}
TerminalEvents == {"run.completed", "run.failed", "run.canceled"}

VARIABLES
    runEvents,   \* the run_events table: sequence of rows in insertion order
    nextEventId, \* the AUTOINCREMENT counter of run_events.id
    ap,          \* one entry per concurrent caller of appendRunEvent
    fin,         \* the tail of executeRun for run r1: finalizeRun, then the terminal event
    evStatus,    \* runs.status of run r1 as the event stream reads it
    obs,         \* the SSE stream of run r1 (poll of the events route)
    rd           \* the last getRunEventsAfter call of a plain reader

evVars == <<runEvents, nextEventId, ap, fin, evStatus, obs, rd>>

VARIABLES
    cfg,          \* run.config (budget, concurrency, optimization, tasks) and the scenario
    runStatus,    \* runs.status
    runCost,      \* runs.cost_estimate
    runTotals,    \* runs.totals_json (Null or the aggregate)
    orch,         \* executeRun: position and locals
    taskQueue,    \* executePhase: the shared in-memory queue
    evaluations,  \* executePhase: the in-memory result array of the phase
    baseline,     \* executeRun: baselineEvaluations
    wk,           \* one worker activity of executePhase per worker, with executeTaskOnWorker's locals
    workerStatus, \* run_workers.status
    taskStatus,   \* tasks.status
    execs,        \* the task_executions table with each execution's task_steps
    evalRows,     \* the task_evaluations table: number of rows per (task, phase, pass)
    judging,      \* judge calls holding a slot of judgeLimit
    evCount,      \* number of run_events rows of the run (its max seq)
    evTypes,      \* number of run_events rows of the run per event type
    runErrors,    \* the run_errors table: number of rows per error code
    cn,           \* the POST /cancel request handler
    session       \* the run's skill_optimization_sessions row

VARIABLES
    jg,           \* one judgeTaskAttempt call: its input, its locals and its result
    rc,           \* one buildRunConfig call: the request and the config returned
    ag            \* one aggregateRunScores call: the evaluations and the totals returned

mainVars == <<cfg, runStatus, runCost, runTotals, orch, taskQueue, evaluations, baseline, wk,
              workerStatus, taskStatus, execs, evalRows, judging, evCount, evTypes,
              runErrors, cn, session>>

vars == <<runEvents, nextEventId, ap, fin, evStatus, obs, rd,
          cfg, runStatus, runCost, runTotals, orch, taskQueue, evaluations, baseline, wk,
          workerStatus, taskStatus, execs, evalRows, judging, evCount, evTypes,
          runErrors, cn, session, jg, rc, ag>>

(***************************************************************************)
(* Pure helpers.                                                           *)
(***************************************************************************)
SetMax(S) == IF S = {} THEN 0 ELSE CHOOSE m \in S : \A x \in S : x <= m

RowsOf(rows) == {rows[i] : i \in DOMAIN rows}

\* select max(seq) from run_events where run_id = runId  (null when no row)
MaxSeq(rows, runId) == SetMax({e.seq : e \in {x \in RowsOf(rows) : x.run = runId}})

\* the unique index run_events_run_seq_unq on (run_id, seq)
SeqConflictNoIndex(rows, runId, seq) == FALSE

SeqConflict(rows, runId, seq) ==
    \E e \in RowsOf(rows) : e.run = runId /\ e.seq = seq

RECURSIVE SortBySeq(_)
\* order by seq asc (stable on the insertion order)
SortBySeq(rowSet) ==
    IF rowSet = {} THEN <<>>
    ELSE LET m == CHOOSE e \in rowSet :
                    \A x \in rowSet : e.seq < x.seq \/ (e.seq = x.seq /\ e.id <= x.id)
         IN <<m>> \o SortBySeq(rowSet \ {m})

Take(s, n) == IF Len(s) <= n THEN s ELSE SubSeq(s, 1, n)

\* where run_id = runId and seq > afterSeq order by seq asc limit `limit`
getRunEventsAfterGte(rows, runId, afterSeq, limit) ==
    Take(SortBySeq({e \in RowsOf(rows) : e.run = runId /\ e.seq >= afterSeq}), limit)

getRunEventsAfter(rows, runId, afterSeq, limit) ==
    Take(SortBySeq({e \in RowsOf(rows) : e.run = runId /\ e.seq > afterSeq}), limit)

(***************************************************************************)
(* Event log: appendRunEvent under concurrent callers.                      *)
(* A call is `select max(seq)` (await), then `insert` (await).  The insert  *)
(* of a (run_id, seq) that already exists violates run_events_run_seq_unq   *)
(* and the rejection propagates to the caller: there is no retry.           *)
(***************************************************************************)
InitAp == [pc |-> "idle", run |-> "r1", seq |-> 0, calls |-> 0, ok |-> 0, err |-> 0]

EventRow(id, runId, seq, type) == [id |-> id, run |-> runId, seq |-> seq, type |-> type]

InitEv ==
    /\ runEvents = <<EventRow(1, "r1", 1, "run.queued")>>
    /\ nextEventId = 2
    /\ ap = [a \in Appenders |-> InitAp]
    /\ fin = [pc |-> "finalize", seq |-> 0, level |-> 0]
    /\ evStatus = "running"
    /\ obs = [pc |-> "poll", last |-> 0, n |-> 0, got |-> <<>>]
    /\ rd = [run |-> "r1", after |-> 0, limit |-> 1, rows |-> <<>>]

\* appendRunEvent, events.ts:20-25: const seq = (max(seq) ?? 0) + 1
ApSelect(a, r) ==
    /\ ap[a].pc = "idle"
    /\ ap[a].calls < MaxCalls
    /\ Len(runEvents) < MaxEvents
    /\ ap' = [ap EXCEPT ![a] = [@ EXCEPT !.pc = "insert", !.run = r,
                                         !.seq = MaxSeq(runEvents, r) + 1,
                                         !.calls = @ + 1]]
    /\ UNCHANGED <<runEvents, nextEventId, fin, evStatus, obs, rd>>

\* appendRunEvent, events.ts:27-35: insert, return seq; a constraint error rejects
ApInsert(a) ==
    /\ ap[a].pc = "insert"
    /\ IF SeqConflict(runEvents, ap[a].run, ap[a].seq)
       THEN /\ ap' = [ap EXCEPT ![a] = [@ EXCEPT !.pc = "idle", !.seq = 0, !.err = @ + 1]]
            /\ UNCHANGED <<runEvents, nextEventId>>
       ELSE /\ runEvents' = Append(runEvents,
                                EventRow(nextEventId, ap[a].run, ap[a].seq, "test.concurrent"))
            /\ nextEventId' = nextEventId + 1
            /\ ap' = [ap EXCEPT ![a] = [@ EXCEPT !.pc = "idle", !.seq = 0, !.ok = @ + 1]]
    /\ UNCHANGED <<fin, evStatus, obs, rd>>

(***************************************************************************)
(* Tail of executeRun for run r1 (orchestrator.ts:1055-1116):               *)
(* finalizeRun(completed), then appendRunEvent(run.completed).  A rejected  *)
(* append is caught by the optimization catch (level 1: finalizeRun         *)
(* completed and run.completed again), then by the outer catch (level 2:    *)
(* finalizeRun failed and run.failed); a rejection there rejects executeRun.*)
(***************************************************************************)
FinStatus(level) == IF level = 2 THEN "failed" ELSE "completed"

FinEvent(level) == IF level = 2 THEN "run.failed" ELSE "run.completed"

FinFinalizeRun ==
    /\ fin.pc = "finalize"
    /\ evStatus' = FinStatus(fin.level)
    /\ fin' = [fin EXCEPT !.pc = "select"]
    /\ UNCHANGED <<runEvents, nextEventId, ap, obs, rd>>

FinSelect ==
    /\ fin.pc = "select"
    /\ fin' = [fin EXCEPT !.pc = "insert", !.seq = MaxSeq(runEvents, "r1") + 1]
    /\ UNCHANGED <<runEvents, nextEventId, ap, evStatus, obs, rd>>

FinInsert ==
    /\ fin.pc = "insert"
    /\ IF SeqConflict(runEvents, "r1", fin.seq)
       THEN /\ fin' = IF fin.level < 2
                         THEN [pc |-> "finalize", seq |-> 0, level |-> fin.level + 1]
                         ELSE [fin EXCEPT !.pc = "rejected", !.seq = 0]
            /\ UNCHANGED <<runEvents, nextEventId>>
       ELSE /\ runEvents' = Append(runEvents,
                                EventRow(nextEventId, "r1", fin.seq, FinEvent(fin.level)))
            /\ nextEventId' = nextEventId + 1
            /\ fin' = [fin EXCEPT !.pc = "done", !.seq = 0]
    /\ UNCHANGED <<ap, evStatus, obs, rd>>

(***************************************************************************)
(* The SSE stream of run r1: poll, route.ts:62-92.                          *)
(***************************************************************************)
RowIds(rows) == [i \in DOMAIN rows |-> rows[i].id]

\* route.ts:67-81: fetch after the cursor, send each event, move the cursor to event.id
ObsFetch ==
    /\ obs.pc = "poll"
    /\ LET events == getRunEventsAfter(runEvents, "r1", obs.last, PollLimit)
       IN obs' = [pc |-> "check",
                  last |-> IF events = <<>> THEN obs.last ELSE events[Len(events)].id,
                  n |-> Len(events),
                  got |-> obs.got \o RowIds(events)]
    /\ UNCHANGED <<runEvents, nextEventId, ap, fin, evStatus, rd>>

\* route.ts:83-91: getRun; a terminal run and an empty batch close the stream as done
ObsCheck ==
    /\ obs.pc = "check"
    /\ obs' = [obs EXCEPT !.pc = IF evStatus \in TerminalStatuses /\ obs.n = 0
                                   THEN "closed" ELSE "poll"]
    /\ UNCHANGED <<runEvents, nextEventId, ap, fin, evStatus, rd>>

(***************************************************************************)
(* A reader calling getRunEventsAfter(runId, afterId, limit) directly.      *)
(***************************************************************************)
ReadAfter(r, after, limit) ==
    /\ rd' = [run |-> r, after |-> after, limit |-> limit,
              rows |-> getRunEventsAfter(runEvents, r, after, limit)]
    /\ UNCHANGED <<runEvents, nextEventId, ap, fin, evStatus, obs>>

(***************************************************************************)
(* The run store: lib/runs/service.ts.                                     *)
(***************************************************************************)
IsTerminal(status) == status \in TerminalStatuses

\* a null column (totals_json, baseline_summary_json, delta_json, error_message)
Null == [null |-> TRUE]

\* no skill_optimization_sessions row exists for the run
NoSession == [status |-> "none", baselineTotals |-> Null, optimizedTotals |-> Null,
              delta |-> Null, errorMessage |-> Null]

\* updateRunStatus, service.ts:1041-1046: a terminal current status is not
\* replaced by a non-terminal one.  `current` is the status the select read.
UpdateRunStatusWrites(current, status) ==
    ~(IsTerminal(current) /\ ~IsTerminal(status))

\* isRunCanceled, service.ts:1139-1149
isRunCanceled(status) == status = "canceled"

\* incrementRunCost, service.ts:1275-1283: set cost_estimate = cost_estimate + delta
incrementRunCostOverwrite(cost, delta) == delta

incrementRunCost(cost, delta) == cost + delta

\* insert of appendRunEvent against run_events_run_seq_unq, for a run whose
\* stored seqs are 1..count
SeqTaken(seq, count) == seq <= count

RECURSIVE Gcd(_, _)
Gcd(a, b) == IF b = 0 THEN a ELSE Gcd(b, a % b)

\* the quotient n / d of two numbers (a JavaScript number), kept exact as a
\* reduced fraction; d > 0
Quotient(n, d) ==
    LET a == IF n < 0 THEN 0 - n ELSE n
        g == Gcd(a, d)
    IN [num |-> n \div g, den |-> d \div g]

RECURSIVE SumAverage(_)
\* evaluations.reduce((sum, e) => sum + e.criterionScores.average, 0), aggregate.ts:18-20
SumAverage(evs) == IF evs = <<>> THEN 0 ELSE evs[1].average + SumAverage(Tail(evs))

\* evaluations.reduce(...), aggregate.ts:22-29: the evaluations with a failure
\* class are counted per class
FailureBreakdown(evs) ==
    [c \in {evs[i].failureClass : i \in {j \in DOMAIN evs : evs[j].failureClass # "null"}} |->
        Cardinality({i \in DOMAIN evs : evs[i].failureClass = c})]

aggregateRunScoresFailedSwapped(evs) ==
    LET passed == Cardinality({i \in DOMAIN evs : evs[i].pass})
        total == Len(evs)
        den == IF total = 0 THEN 1 ELSE total
    IN [totalTasks |-> total, passedTasks |-> passed, failedTasks |-> passed - total,
        passRate |-> Quotient(passed, den), averageScore |-> Quotient(SumAverage(evs), den),
        failureBreakdown |-> FailureBreakdown(evs)]

\* aggregateRunScores, aggregate.ts:3-39
aggregateRunScores(evs) ==
    IF Len(evs) = 0
    THEN [totalTasks |-> 0, passedTasks |-> 0, failedTasks |-> 0, passRate |-> Quotient(0, 1),
          averageScore |-> Quotient(0, 1), failureBreakdown |-> << >>]
    ELSE LET passed == Cardinality({i \in DOMAIN evs : evs[i].pass})
             total == Len(evs)
         IN [totalTasks |-> total, passedTasks |-> passed, failedTasks |-> total - passed,
             passRate |-> Quotient(passed, total),
             averageScore |-> Quotient(SumAverage(evs), total),
             failureBreakdown |-> FailureBreakdown(evs)]

\* Number(x.toFixed(4)) of the difference of two quotients, in ten-thousandths
\* (orchestrator.ts:1042-1045); unit is the scale of the numerators
ToFixed4(a, b, unit) ==
    LET n == a.num * b.den - b.num * a.den
        d == a.den * b.den * unit
        m == IF n < 0 THEN 0 - n ELSE n
        r == (2 * m * 10000 + d) \div (2 * d)
    IN IF n < 0 THEN 0 - r ELSE r

DeltaOfBaselineMinusOptimized(optimizedTotals, baselineTotals) ==
    [passRateDelta |-> ToFixed4(baselineTotals.passRate, optimizedTotals.passRate, 1),
     averageScoreDelta |-> ToFixed4(baselineTotals.averageScore, optimizedTotals.averageScore, Scale),
     passedTasksDelta |-> baselineTotals.passedTasks - optimizedTotals.passedTasks,
     failedTasksDelta |-> baselineTotals.failedTasks - optimizedTotals.failedTasks]

\* the delta of the optimized totals against the baseline totals,
\* orchestrator.ts:1041-1047
DeltaOf(optimizedTotals, baselineTotals) ==
    [passRateDelta |-> ToFixed4(optimizedTotals.passRate, baselineTotals.passRate, 1),
     averageScoreDelta |-> ToFixed4(optimizedTotals.averageScore, baselineTotals.averageScore, Scale),
     passedTasksDelta |-> optimizedTotals.passedTasks - baselineTotals.passedTasks,
     failedTasksDelta |-> optimizedTotals.failedTasks - baselineTotals.failedTasks]

\* the delta recorded when the optimization is skipped, orchestrator.ts:926-931
ZeroDelta == [passRateDelta |-> 0, averageScoreDelta |-> 0, passedTasksDelta |-> 0,
              failedTasksDelta |-> 0]

\* the evaluation an execution returns: the judge's result (judge.ts:241-255)
\* or the fallback of the catch (orchestrator.ts:671-685)
EvaluationOf(task, pass) ==
    [task |-> task, pass |-> pass,
     failureClass |-> IF pass THEN "null" ELSE "poor_structure",
     average |-> IF pass THEN PASS_THRESHOLD * Scale ELSE 0]

Min2(a, b) == IF a <= b THEN a ELSE b

Max2(a, b) == IF a >= b THEN a ELSE b

ActiveWorkerCountAllWorkers(executionConcurrency, workerCount) == workerCount

\* executePhase, orchestrator.ts:735-739
ActiveWorkerCount(executionConcurrency, workerCount) ==
    Max2(1, Min2(executionConcurrency, workerCount))

ActiveWorkers == {Workers[i] : i \in 1..ActiveWorkerCount(cfg.executionConcurrency, Len(Workers))}

(***************************************************************************)
(* Scenarios: the run configuration (buildRunConfig output) the run is      *)
(* started with, whether the external calls of the run (ingestion, model,   *)
(* judge) can throw, and whether a cancel request is sent for the run.      *)
(***************************************************************************)
Configs ==
    { [maxStepsPerTask |-> 1, maxTokensPerTask |-> TokenBudget - CallTokens,
       hardCostCapUsd |-> CostCap,
       executionConcurrency |-> 2, judgeConcurrency |-> 1, enableSkillOptimization |-> FALSE,
       tasks |-> <<"t1", "t2">>, faults |-> FALSE, cancel |-> FALSE],
      [maxStepsPerTask |-> StepBudget, maxTokensPerTask |-> Unlimited, hardCostCapUsd |-> Unlimited,
       executionConcurrency |-> 1, judgeConcurrency |-> 1, enableSkillOptimization |-> FALSE,
       tasks |-> <<"t1">>, faults |-> TRUE, cancel |-> FALSE],
      [maxStepsPerTask |-> 1, maxTokensPerTask |-> Unlimited, hardCostCapUsd |-> Unlimited,
       executionConcurrency |-> 1, judgeConcurrency |-> 1, enableSkillOptimization |-> TRUE,
       tasks |-> <<"t1">>, faults |-> TRUE, cancel |-> TRUE],
      [maxStepsPerTask |-> StepBudget, maxTokensPerTask |-> TokenBudget, hardCostCapUsd |-> Unlimited,
       executionConcurrency |-> 1, judgeConcurrency |-> 1, enableSkillOptimization |-> FALSE,
       tasks |-> <<"t1">>, faults |-> TRUE, cancel |-> TRUE],
      [maxStepsPerTask |-> 1, maxTokensPerTask |-> Unlimited, hardCostCapUsd |-> CostCap,
       executionConcurrency |-> 1, judgeConcurrency |-> 1, enableSkillOptimization |-> FALSE,
       tasks |-> <<"t1", "t2">>, faults |-> TRUE, cancel |-> TRUE] }

\* what an external call (ingestion, model, judge) of this run may do: return
\* (TRUE) or throw (FALSE)
Outcomes == IF cfg.faults THEN {TRUE, FALSE} ELSE {TRUE}

\* the values of act.done the model returns in this run
ActOutcomes == IF cfg.faults THEN {TRUE, FALSE} ELSE {TRUE}

InitWk == [pc |-> "off", task |-> "none", exec |-> 0, step |-> 0, tok |-> 0, stop |-> "step_limit",
           done |-> FALSE, cited |-> TRUE, cont |-> TRUE, reason |-> "none", rd |-> "none", seq |-> 0,
           result |-> "none"]

\* the run whose start is requested again: one task, no optimization, no
\* throwing call, no cancel request
RestartConfigs ==
    { [maxStepsPerTask |-> 1, maxTokensPerTask |-> Unlimited, hardCostCapUsd |-> Unlimited,
       executionConcurrency |-> 1, judgeConcurrency |-> 1, enableSkillOptimization |-> FALSE,
       tasks |-> <<"t1">>, faults |-> FALSE, cancel |-> FALSE] }

\* the state createRun leaves (service.ts:262-287): a queued run with its run.queued event
InitRunOf(configs) ==
    /\ cfg \in configs
    /\ runStatus = "queued"
    /\ runCost = 0
    /\ runTotals = Null
    /\ orch = [pc |-> "idle", rd |-> "none", seq |-> 0, phase |-> "baseline", calls |-> 0]
    /\ taskQueue = <<>>
    /\ evaluations = <<>>
    /\ baseline = <<>>
    /\ wk = [w \in WorkerIds |-> InitWk]
    /\ workerStatus = [w \in WorkerIds |-> "none"]
    /\ taskStatus = [t \in Tasks |-> "none"]
    /\ execs = <<>>
    /\ evalRows = [k \in Tasks \X Phases \X BOOLEAN |-> 0]
    /\ judging = 0
    /\ evCount = 1
    /\ evTypes = [t \in EventTypes |-> IF t = "run.queued" THEN 1 ELSE 0]
    /\ runErrors = [c \in ErrorCodes |-> 0]
    /\ cn = [pc |-> "idle", rd |-> "none", seq |-> 0]
    /\ session = NoSession

InitRun == InitRunOf(Configs)

\* no judgeTaskAttempt call is followed
JudgeIdle == [pc |-> "idle"]

\* no buildRunConfig call is followed
ConfigIdle == [pc |-> "idle"]

\* no aggregateRunScores call is followed
AggregateIdle == [pc |-> "idle"]

Init == InitRun /\ InitEv /\ jg = JudgeIdle /\ rc = ConfigIdle /\ ag = AggregateIdle

InitEvents ==
    /\ InitRun
    /\ cfg.enableSkillOptimization /\ cfg.executionConcurrency = 1
    /\ InitEv
    /\ jg = JudgeIdle /\ rc = ConfigIdle /\ ag = AggregateIdle

\* updateSkillOptimizationSession, service.ts:773-816: the columns of the
\* patch are written over the row, when the row exists
updateSkillOptimizationSession(patch) ==
    IF session.status = "none" THEN session
    ELSE [f \in DOMAIN session |-> IF f \in DOMAIN patch THEN patch[f] ELSE session[f]]

SkipOptimizationNever(evs, enableSkillOptimization) == FALSE

\* orchestrator.ts:920, :933, :961: the optimization is skipped when no baseline
\* evaluation failed or the run's config disables it
SkipOptimization(evs, enableSkillOptimization) ==
    Len(SelectSeq(evs, LAMBDA e : ~e.pass)) = 0 \/ ~enableSkillOptimization

(***************************************************************************)
(* executeRun, orchestrator.ts:793-1117.  orch.pc names the await the       *)
(* orchestrator is at; an append is two steps (select max(seq), insert).    *)
(***************************************************************************)
\* updateRunStatus calls of executeRun: label -> status written, next label
OrchStatusAt ==
    [ st_ingesting  |-> [status |-> "ingesting",        next |-> "ev_ingesting"],  \* :803
      st_generating |-> [status |-> "generating_tasks", next |-> "tasks"],         \* :844
      st_running    |-> [status |-> "running",          next |-> "spawn"],         \* :885
      st_evaluating |-> [status |-> "evaluating",       next |-> "skill"] ]        \* :983

\* appendRunEvent calls of executeRun: label -> event type, next label, label
\* the rejection of the append leads to
OrchAppendAt ==
    [ ev_ingesting |-> [type |-> "run.ingesting",          ok |-> "ingest",    err |-> "catch"],    \* :804
      ev_ingested  |-> [type |-> "run.ingestion_complete", ok |-> "chk1",      err |-> "catch"],    \* :829
      ev_tasks     |-> [type |-> "run.tasks_generated",    ok |-> "chk2",      err |-> "catch"],    \* :857
      ev_workers   |-> [type |-> "run.workers_ready",      ok |-> "st_running", err |-> "catch"],   \* :871
      ev_canceled  |-> [type |-> "run.canceled",           ok |-> "done",      err |-> "catch"],    \* :912
      ev_base      |-> [type |-> "run.completed",          ok |-> "done",      err |-> "catch"],    \* :939, :967
      ev_opt       |-> [type |-> "run.completed",          ok |-> "done",      err |-> "icatch"],   \* :1057
      ev_err       |-> [type |-> "run.completed",          ok |-> "done",      err |-> "catch"],    \* :1084
      ev_failed    |-> [type |-> "run.failed",             ok |-> "done",      err |-> "rejected"] ] \* :1111

\* isRunCanceled checks of executeRun: label -> next label when canceled, otherwise
OrchCheckAt ==
    [ chk1 |-> [yes |-> "fz_cancel_null", no |-> "st_generating"],   \* :839
      chk2 |-> [yes |-> "fz_cancel_null", no |-> "workers"],         \* :864
      chk3 |-> [yes |-> "fz_cancel",      no |-> "decide"] ]         \* :909

OrchFinalizeAtSkillErrorFails ==
    [ fz_cancel_null |-> [status |-> "canceled",  totals |-> "null",      next |-> "done"],
      fz_cancel      |-> [status |-> "canceled",  totals |-> "baseline",  next |-> "ev_canceled"],
      fz_base        |-> [status |-> "completed", totals |-> "baseline",  next |-> "ev_base"],
      fz_opt         |-> [status |-> "completed", totals |-> "optimized", next |-> "ev_opt"],
      fz_err         |-> [status |-> "failed",    totals |-> "null",      next |-> "ev_err"],
      fz_failed      |-> [status |-> "failed",    totals |-> "null",      next |-> "ev_failed"] ]

\* finalizeRun calls of executeRun: label -> status, totals, next label
OrchFinalizeAt ==
    [ fz_cancel_null |-> [status |-> "canceled",  totals |-> "null",      next |-> "done"],        \* :840, :865
      fz_cancel      |-> [status |-> "canceled",  totals |-> "baseline",  next |-> "ev_canceled"], \* :911
      fz_base        |-> [status |-> "completed", totals |-> "baseline",  next |-> "ev_base"],     \* :938, :966
      fz_opt         |-> [status |-> "completed", totals |-> "optimized", next |-> "ev_opt"],      \* :1055
      fz_err         |-> [status |-> "completed", totals |-> "baseline",  next |-> "ev_err"],      \* :1083
      fz_failed      |-> [status |-> "failed",    totals |-> "null",      next |-> "ev_failed"] ]  \* :1109

\* activeRuns, orchestrator.ts:163-173: the run is added by startRunInBackground
\* and deleted in the finally of executeRun's promise
ActiveRuns == IF orch.pc \in {"idle", "done", "rejected"} THEN {} ELSE {"r1"}

\* startRunInBackground, orchestrator.ts:163-173, called by POST /api/runs
\* after createRun, and getRun of executeRun
OrchStart ==
    /\ orch.pc = "idle"
    /\ orch' = [orch EXCEPT !.pc = "st_ingesting", !.calls = 1]
    /\ UNCHANGED <<cfg, session, runStatus, runCost, runTotals, taskQueue, evaluations, baseline, wk,
                   workerStatus, taskStatus, execs, evalRows, judging, evCount, evTypes,
                   runErrors, cn>>

\* startRunInBackground called again for the run: it returns when the run is
\* in activeRuns, and calls executeRun otherwise
OrchStartAgain ==
    /\ orch.calls >= 1
    /\ orch.calls < MaxStarts
    /\ orch' = IF "r1" \in ActiveRuns
               THEN [orch EXCEPT !.calls = @ + 1]
               ELSE [orch EXCEPT !.pc = "st_ingesting", !.phase = "baseline", !.calls = @ + 1]
    /\ UNCHANGED <<cfg, session, runStatus, runCost, runTotals, taskQueue, evaluations, baseline, wk,
                   workerStatus, taskStatus, execs, evalRows, judging, evCount, evTypes,
                   runErrors, cn>>

\* updateRunStatus, service.ts:1032-1054: the select, then the update
OrchUpdateRunStatus ==
    /\ orch.pc \in DOMAIN OrchStatusAt
    /\ IF orch.rd = "none"
       THEN /\ orch' = [orch EXCEPT !.rd = runStatus]
            /\ UNCHANGED runStatus
       ELSE /\ runStatus' = IF UpdateRunStatusWrites(orch.rd, OrchStatusAt[orch.pc].status)
                              THEN OrchStatusAt[orch.pc].status ELSE runStatus
            /\ orch' = [orch EXCEPT !.rd = "none", !.pc = OrchStatusAt[orch.pc].next]
    /\ UNCHANGED <<cfg, session, runCost, runTotals, taskQueue, evaluations, baseline, wk,
                   workerStatus, taskStatus, execs, evalRows, judging, evCount, evTypes,
                   runErrors, cn>>

\* appendRunEvent, events.ts:13-36, called from executeRun
OrchAppend ==
    /\ orch.pc \in DOMAIN OrchAppendAt
    /\ IF orch.seq = 0
       THEN /\ orch' = [orch EXCEPT !.seq = evCount + 1]
            /\ UNCHANGED <<evCount, evTypes>>
       ELSE IF SeqTaken(orch.seq, evCount)
       THEN /\ orch' = [orch EXCEPT !.seq = 0, !.pc = OrchAppendAt[orch.pc].err]
            /\ UNCHANGED <<evCount, evTypes>>
       ELSE /\ evCount' = orch.seq
            /\ evTypes' = [evTypes EXCEPT ![OrchAppendAt[orch.pc].type] = @ + 1]
            /\ orch' = [orch EXCEPT !.seq = 0, !.pc = OrchAppendAt[orch.pc].ok]
    /\ UNCHANGED <<cfg, session, runStatus, runCost, runTotals, taskQueue, evaluations, baseline, wk,
                   workerStatus, taskStatus, execs, evalRows, judging, runErrors, cn>>

\* ingestDocumentation, persistIngestionArtifacts, createOrGetSkillOptimizationSession
\* (orchestrator.ts:810-827); the ingestion may throw
OrchIngest ==
    /\ orch.pc = "ingest"
    /\ \E ok \in Outcomes :
          /\ orch' = [orch EXCEPT !.pc = IF ok THEN "ev_ingested" ELSE "catch"]
          /\ session' = IF ok /\ session.status = "none"
                         THEN [NoSession EXCEPT !.status = "not_started"] ELSE session
    /\ UNCHANGED <<cfg, runStatus, runCost, runTotals, taskQueue, evaluations, baseline, wk,
                   workerStatus, taskStatus, execs, evalRows, judging, evCount, evTypes,
                   runErrors, cn>>

\* isRunCanceled, called from executeRun
OrchCheckCanceled ==
    /\ orch.pc \in DOMAIN OrchCheckAt
    /\ orch' = [orch EXCEPT !.pc = IF isRunCanceled(runStatus)
                                     THEN OrchCheckAt[orch.pc].yes ELSE OrchCheckAt[orch.pc].no]
    /\ UNCHANGED <<cfg, session, runStatus, runCost, runTotals, taskQueue, evaluations, baseline, wk,
                   workerStatus, taskStatus, execs, evalRows, judging, evCount, evTypes,
                   runErrors, cn>>

\* generateTasks and persistTasks, orchestrator.ts:846-855
OrchPersistTasks ==
    /\ orch.pc = "tasks"
    /\ taskStatus' = [t \in Tasks |->
                        IF \E i \in DOMAIN cfg.tasks : cfg.tasks[i] = t THEN "pending" ELSE taskStatus[t]]
    /\ orch' = [orch EXCEPT !.pc = "ev_tasks"]
    /\ UNCHANGED <<cfg, session, runStatus, runCost, runTotals, taskQueue, evaluations, baseline, wk,
                   workerStatus, execs, evalRows, judging, evCount, evTypes, runErrors, cn>>

\* ensureRunWorkers, service.ts:367-412
OrchEnsureRunWorkers ==
    /\ orch.pc = "workers"
    /\ workerStatus' = [w \in WorkerIds |-> "idle"]
    /\ orch' = [orch EXCEPT !.pc = "ev_workers"]
    /\ UNCHANGED <<cfg, session, runStatus, runCost, runTotals, taskQueue, evaluations, baseline, wk,
                   taskStatus, execs, evalRows, judging, evCount, evTypes, runErrors, cn>>

\* executePhase, orchestrator.ts:733-741: the queue is filled and the worker
\* activities are started (baseline :899, optimized :1031)
OrchSpawn ==
    /\ orch.pc = "spawn"
    /\ taskQueue' = cfg.tasks
    /\ evaluations' = <<>>
    /\ wk' = [w \in WorkerIds |-> IF w \in ActiveWorkers THEN [InitWk EXCEPT !.pc = "w_init"] ELSE wk[w]]
    /\ orch' = [orch EXCEPT !.pc = "await"]
    /\ session' = IF orch.phase = "baseline" THEN updateSkillOptimizationSession([status |-> "running"])
                   ELSE session
    /\ UNCHANGED <<cfg, runStatus, runCost, runTotals, baseline, workerStatus, taskStatus,
                   execs, evalRows, judging, evCount, evTypes, runErrors, cn>>

\* await Promise.all(workerPromises), orchestrator.ts:789: rejects with the
\* first rejected activity, resolves when every activity has resolved
OrchAwait ==
    /\ orch.pc = "await"
    /\ \/ /\ \E w \in ActiveWorkers : wk[w].pc = "w_rejected"
          /\ orch' = [orch EXCEPT !.pc = IF orch.phase = "baseline" THEN "catch" ELSE "icatch"]
          /\ UNCHANGED <<baseline, session>>
       \/ /\ \A w \in ActiveWorkers : wk[w].pc = "w_done"
          /\ baseline' = IF orch.phase = "baseline" THEN evaluations ELSE baseline
          /\ orch' = [orch EXCEPT !.pc = IF orch.phase = "baseline" THEN "chk3" ELSE "fz_opt"]
          /\ session' = IF orch.phase = "baseline" THEN session
                         ELSE updateSkillOptimizationSession(
                                 [status |-> "completed",
                                  optimizedTotals |-> aggregateRunScores(evaluations),
                                  delta |-> DeltaOf(aggregateRunScores(evaluations),
                                                    aggregateRunScores(baseline))])
    /\ UNCHANGED <<cfg, runStatus, runCost, runTotals, taskQueue, evaluations, wk,
                   workerStatus, taskStatus, execs, evalRows, judging, evCount, evTypes,
                   runErrors, cn>>

\* orchestrator.ts:920-983: no failed baseline evaluation or optimization
\* disabled ends the run with the baseline totals
OrchDecide ==
    /\ orch.pc = "decide"
    /\ orch' = [orch EXCEPT !.pc =
                   IF SkipOptimization(baseline, cfg.enableSkillOptimization)
                   THEN "fz_base" ELSE "st_evaluating"]
    /\ session' = IF SkipOptimization(baseline, cfg.enableSkillOptimization)
                   THEN updateSkillOptimizationSession(
                           [status |-> "skipped",
                            baselineTotals |-> aggregateRunScores(baseline),
                            optimizedTotals |-> aggregateRunScores(baseline),
                            delta |-> ZeroDelta])
                   ELSE updateSkillOptimizationSession(
                           [baselineTotals |-> aggregateRunScores(baseline)])
    /\ UNCHANGED <<cfg, runStatus, runCost, runTotals, taskQueue, evaluations, baseline, wk,
                   workerStatus, taskStatus, execs, evalRows, judging, evCount, evTypes,
                   runErrors, cn>>

\* generateOptimizedSkill and the skill artifacts, orchestrator.ts:986-1029;
\* the model call may throw
OrchGenerateSkill ==
    /\ orch.pc = "skill"
    /\ \E ok \in Outcomes :
          orch' = IF ok THEN [orch EXCEPT !.pc = "spawn", !.phase = "optimized"]
                        ELSE [orch EXCEPT !.pc = "icatch"]
    /\ UNCHANGED <<cfg, session, runStatus, runCost, runTotals, taskQueue, evaluations, baseline, wk,
                   workerStatus, taskStatus, execs, evalRows, judging, evCount, evTypes,
                   runErrors, cn>>

\* the catch of the optimization (orchestrator.ts:1070-1081) and the outer
\* catch (orchestrator.ts:1099-1107): persistRunError
OrchCatch ==
    /\ orch.pc \in {"icatch", "catch"}
    /\ runErrors' = [runErrors EXCEPT ![IF orch.pc = "catch" THEN "RUN_FATAL"
                                        ELSE "SKILL_OPTIMIZATION_ERROR"] = @ + 1]
    /\ orch' = [orch EXCEPT !.pc = IF orch.pc = "catch" THEN "fz_failed" ELSE "fz_err"]
    /\ session' = IF orch.pc = "icatch"
                   THEN updateSkillOptimizationSession(
                           [status |-> "error", errorMessage |-> [message |-> "error"]])
                   ELSE session
    /\ UNCHANGED <<cfg, runStatus, runCost, runTotals, taskQueue, evaluations, baseline, wk,
                   workerStatus, taskStatus, execs, evalRows, judging, evCount, evTypes, cn>>

TotalsOfNullWhenEmpty(source) ==
    CASE source = "null" -> Null
      [] source = "baseline" -> IF baseline = <<>> THEN Null ELSE aggregateRunScores(baseline)
      [] source = "optimized" -> aggregateRunScores(evaluations)

\* the totals handed to finalizeRun: null, aggregateRunScores(baselineEvaluations)
\* (orchestrator.ts:910, :919) or aggregateRunScores(optimizedEvaluations) (:1041);
\* finalizeRun stores any aggregate object (service.ts:1347)
TotalsOf(source) ==
    CASE source = "null" -> Null
      [] source = "baseline" -> aggregateRunScores(baseline)
      [] source = "optimized" -> aggregateRunScores(evaluations)

\* finalizeRun, service.ts:1340-1358: status, totals and endedAt are written
\* whatever the current status is, then every worker is set to done
OrchFinalizeRun ==
    /\ orch.pc \in DOMAIN OrchFinalizeAt
    /\ runStatus' = OrchFinalizeAt[orch.pc].status
    /\ runTotals' = TotalsOf(OrchFinalizeAt[orch.pc].totals)
    /\ workerStatus' = [w \in WorkerIds |-> IF workerStatus[w] = "none" THEN "none" ELSE "done"]
    /\ orch' = [orch EXCEPT !.pc = OrchFinalizeAt[orch.pc].next]
    /\ UNCHANGED <<cfg, session, runCost, taskQueue, evaluations, baseline, wk, taskStatus, execs,
                   evalRows, judging, evCount, evTypes, runErrors, cn>>

(***************************************************************************)
(* POST /api/runs/[runId]/cancel, cancel/route.ts:6-23, and cancelRun,      *)
(* service.ts:1056-1063.                                                    *)
(***************************************************************************)
\* route.ts:11-19: a run that is already terminal is answered alreadyFinal
CancelRoute ==
    /\ cn.pc = "idle"
    /\ cfg.cancel
    /\ orch.pc # "idle"
    /\ cn' = [cn EXCEPT !.pc = IF IsTerminal(runStatus) THEN "final" ELSE "update"]
    /\ UNCHANGED <<cfg, session, runStatus, runCost, runTotals, orch, taskQueue, evaluations, baseline, wk,
                   workerStatus, taskStatus, execs, evalRows, judging, evCount, evTypes,
                   runErrors>>

\* cancelRun: updateRunStatus(runId, "canceled"); the guard of updateRunStatus
\* never holds back a terminal status, so the select (kept in cn.rd) and the
\* update are one step
CancelUpdate ==
    /\ cn.pc = "update"
    /\ runStatus' = IF UpdateRunStatusWrites(runStatus, "canceled") THEN "canceled" ELSE runStatus
    /\ cn' = [cn EXCEPT !.pc = "append", !.rd = runStatus]
    /\ UNCHANGED <<cfg, session, runCost, runTotals, orch, taskQueue, evaluations, baseline, wk,
                   workerStatus, taskStatus, execs, evalRows, judging, evCount, evTypes,
                   runErrors>>

\* cancelRun: appendRunEvent(runId, "run.canceled"); a rejected append fails the request
CancelAppend ==
    /\ cn.pc = "append"
    /\ IF cn.seq = 0
       THEN /\ cn' = [cn EXCEPT !.seq = evCount + 1]
            /\ UNCHANGED <<evCount, evTypes>>
       ELSE IF SeqTaken(cn.seq, evCount)
       THEN /\ cn' = [cn EXCEPT !.seq = 0, !.pc = "error"]
            /\ UNCHANGED <<evCount, evTypes>>
       ELSE /\ evCount' = cn.seq
            /\ evTypes' = [evTypes EXCEPT !["run.canceled"] = @ + 1]
            /\ cn' = [cn EXCEPT !.seq = 0, !.pc = "done"]
    /\ UNCHANGED <<cfg, session, runStatus, runCost, runTotals, orch, taskQueue, evaluations, baseline, wk,
                   workerStatus, taskStatus, execs, evalRows, judging, runErrors>>

(***************************************************************************)
(* executePhase (orchestrator.ts:724-791) and executeTaskOnWorker          *)
(* (orchestrator.ts:175-722): one activity per active worker.               *)
(***************************************************************************)
\* taskQueue.shift(), orchestrator.ts:745: what is left in the queue
ShiftPeekOnly(queue) == queue

Shift(queue) == Tail(queue)

NewExecution(task, phase, worker) ==
    [task |-> task, phase |-> phase, worker |-> worker, status |-> "running", stopReason |-> "null",
     stepCount |-> 0, tokens |-> 0, cost |-> 0, steps |-> <<>>]

\* appendRunEvent calls of a worker activity: label -> type, next label, label
\* the rejection of the append leads to
WorkerAppendAt ==
    [ w_ev_started   |-> [type |-> "worker.started",           ok |-> "t_start",    err |-> "w_rejected"], \* :756
      c_ev           |-> [type |-> "task.execution.completed", ok |-> "w_after",    err |-> "x_catch"],    \* :267, :294
      l_ev_retrieved |-> [type |-> "task.step.retrieved",      ok |-> "l_retrieve", err |-> "x_catch"],    \* :320
      l_ev_r         |-> [type |-> "task.step.created",        ok |-> "l_plan",     err |-> "x_catch"],    \* :352
      l_ev_p         |-> [type |-> "task.step.created",        ok |-> "l_plan_inc", err |-> "x_catch"],    \* :398
      l_ev_f         |-> [type |-> "task.step.created",        ok |-> "l_end",      err |-> "x_catch"],    \* :564
      a_ev           |-> [type |-> "task.execution.completed", ok |-> "w_after",    err |-> "x_catch"],    \* :652
      x_ev           |-> [type |-> "task.error",               ok |-> "w_after",    err |-> "w_rejected"] ] \* :708

WorkerCallAtActRecordedAsPlan ==
    [ l_plan    |-> [phase |-> "plan",    next |-> "l_ev_p"],
      l_act     |-> [phase |-> "plan",    next |-> "l_act_inc"],
      l_reflect |-> [phase |-> "reflect", next |-> "l_ref_inc"] ]

\* persistTaskStep calls that follow a model call: label -> phase, next label
WorkerCallAt ==
    [ l_plan    |-> [phase |-> "plan",    next |-> "l_ev_p"],       \* :371-396
      l_act     |-> [phase |-> "act",     next |-> "l_act_inc"],    \* :423-459
      l_reflect |-> [phase |-> "reflect", next |-> "l_ref_inc"] ]   \* :472-515

\* applyUsage (orchestrator.ts:218-250) after plan, act and reflect:
\* label of incrementRunCost -> label of updateTaskExecutionProgress
WorkerIncAt ==
    [ l_plan_inc |-> "l_plan_prog", l_act_inc |-> "l_act_prog", l_ref_inc |-> "l_ref_prog" ]

\* label of updateTaskExecutionProgress -> stepCountDelta, next label
WorkerProgAt ==
    [ l_plan_prog |-> [stepCountDelta |-> 0, next |-> "l_act"],     \* :412-421
      l_act_prog  |-> [stepCountDelta |-> 0, next |-> "l_reflect"], \* :461-470
      l_ref_prog  |-> [stepCountDelta |-> 1, next |-> "l_ev_f"] ]   \* :517-522

InApplyUsage(w) == wk[w].pc \in DOMAIN WorkerProgAt

SetWk(w, fields) == [wk EXCEPT ![w] = fields]

\* updateWorkerStatus(idle) at the start of the activity (:742) and after a task (:785)
WorkerIdle(w) ==
    /\ wk[w].pc \in {"w_init", "w_idle"}
    /\ workerStatus' = [workerStatus EXCEPT ![w] = "idle"]
    /\ wk' = SetWk(w, [wk[w] EXCEPT !.pc = "w_pop"])
    /\ UNCHANGED <<cfg, session, runStatus, runCost, runTotals, orch, taskQueue, evaluations, baseline,
                   taskStatus, execs, evalRows, judging, evCount, evTypes, runErrors, cn>>

\* orchestrator.ts:744-752: the loop test and the shift run without an await
\* between them; then isRunCanceled is read
WorkerPop(w) ==
    /\ wk[w].pc = "w_pop"
    /\ IF taskQueue = <<>>
       THEN /\ wk' = SetWk(w, [wk[w] EXCEPT !.pc = "w_done"])
            /\ UNCHANGED taskQueue
       ELSE /\ taskQueue' = Shift(taskQueue)
            /\ wk' = SetWk(w, [wk[w] EXCEPT !.task = Head(taskQueue),
                                            !.pc = IF isRunCanceled(runStatus)
                                                   THEN "w_done" ELSE "w_running"])
    /\ UNCHANGED <<cfg, session, runStatus, runCost, runTotals, orch, evaluations, baseline,
                   workerStatus, taskStatus, execs, evalRows, judging, evCount, evTypes,
                   runErrors, cn>>

\* updateWorkerStatus(running), orchestrator.ts:754
WorkerRunning(w) ==
    /\ wk[w].pc = "w_running"
    /\ workerStatus' = [workerStatus EXCEPT ![w] = "running"]
    /\ wk' = SetWk(w, [wk[w] EXCEPT !.pc = "w_ev_started"])
    /\ UNCHANGED <<cfg, session, runStatus, runCost, runTotals, orch, taskQueue, evaluations, baseline,
                   taskStatus, execs, evalRows, judging, evCount, evTypes, runErrors, cn>>

\* appendRunEvent, events.ts:13-36, called from a worker activity
WorkerAppend(w) ==
    /\ wk[w].pc \in DOMAIN WorkerAppendAt
    /\ IF wk[w].seq = 0
       THEN /\ wk' = SetWk(w, [wk[w] EXCEPT !.seq = evCount + 1])
            /\ UNCHANGED <<evCount, evTypes>>
       ELSE IF SeqTaken(wk[w].seq, evCount)
       THEN /\ wk' = SetWk(w, [wk[w] EXCEPT !.seq = 0, !.pc = WorkerAppendAt[wk[w].pc].err])
            /\ UNCHANGED <<evCount, evTypes>>
       ELSE /\ evCount' = wk[w].seq
            /\ evTypes' = [evTypes EXCEPT ![WorkerAppendAt[wk[w].pc].type] = @ + 1]
            /\ wk' = SetWk(w, [wk[w] EXCEPT !.seq = 0, !.pc = WorkerAppendAt[wk[w].pc].ok])
    /\ UNCHANGED <<cfg, session, runStatus, runCost, runTotals, orch, taskQueue, evaluations, baseline,
                   workerStatus, taskStatus, execs, evalRows, judging, runErrors, cn>>

\* orchestrator.ts:183-216: getRun, updateTaskStatus(running), createTaskExecution,
\* upsertTaskAgentState, all outside the try: a failing store call rejects the
\* worker activity
TaskStart(w) ==
    /\ wk[w].pc = "t_start"
    /\ \/ /\ FALSE \in Outcomes
          /\ wk' = SetWk(w, [wk[w] EXCEPT !.pc = "w_rejected"])
          /\ UNCHANGED <<taskStatus, execs>>
       \/ /\ taskStatus' = [taskStatus EXCEPT ![wk[w].task] = "running"]
          /\ execs' = Append(execs, NewExecution(wk[w].task, orch.phase, w))
          /\ wk' = SetWk(w, [wk[w] EXCEPT !.pc = "l_top", !.exec = Len(execs) + 1, !.step = 1,
                                          !.tok = 0, !.stop = "step_limit", !.result = "none"])
    /\ UNCHANGED <<cfg, session, runStatus, runCost, runTotals, orch, taskQueue, evaluations, baseline,
                   workerStatus, evalRows, judging, evCount, evTypes, runErrors, cn>>

\* orchestrator.ts:254, :418, :467, :579: totalInputTokens + totalOutputTokens >= maxTokensPerTask
TokenLimitReachedEarly(tok, maxTokens) == tok + CallTokens >= maxTokens

TokenLimitReached(tok, maxTokens) == tok >= maxTokens

\* orchestrator.ts:284: refreshedRun.costEstimate >= hardCostCapUsd
CostLimitReached(cost, cap) == cost >= cap

\* orchestrator.ts:254-279: the token test, then isRunCanceled
LoopTop(w) ==
    /\ wk[w].pc = "l_top"
    /\ wk' = SetWk(w,
          IF TokenLimitReached(wk[w].tok, cfg.maxTokensPerTask)
          THEN [wk[w] EXCEPT !.stop = "token_limit", !.pc = "a_status"]
          ELSE IF isRunCanceled(runStatus)
          THEN [wk[w] EXCEPT !.stop = "cancelled", !.pc = "c_skip"]
          ELSE [wk[w] EXCEPT !.pc = "l_cost"])
    /\ UNCHANGED <<cfg, session, runStatus, runCost, runTotals, orch, taskQueue, evaluations, baseline,
                   workerStatus, taskStatus, execs, evalRows, judging, evCount, evTypes,
                   runErrors, cn>>

\* orchestrator.ts:281-287: getRun and the cost cap
LoopCost(w) ==
    /\ wk[w].pc = "l_cost"
    /\ wk' = SetWk(w,
          IF CostLimitReached(runCost, cfg.hardCostCapUsd)
          THEN [wk[w] EXCEPT !.stop = "cost_limit", !.pc = "c_skip"]
          ELSE [wk[w] EXCEPT !.pc = "l_ev_retrieved"])
    /\ UNCHANGED <<cfg, session, runStatus, runCost, runTotals, orch, taskQueue, evaluations, baseline,
                   workerStatus, taskStatus, execs, evalRows, judging, evCount, evTypes,
                   runErrors, cn>>

\* orchestrator.ts:261-266 and :288-293: updateTaskStatus(skipped), finalizeTaskExecution(skipped)
TaskSkip(w) ==
    /\ wk[w].pc = "c_skip"
    /\ taskStatus' = [taskStatus EXCEPT ![wk[w].task] = "skipped"]
    /\ execs' = [execs EXCEPT ![wk[w].exec] = [@ EXCEPT !.status = "skipped", !.stopReason = wk[w].stop]]
    /\ wk' = SetWk(w, [wk[w] EXCEPT !.pc = "c_ev", !.result = "null"])
    /\ UNCHANGED <<cfg, session, runStatus, runCost, runTotals, orch, taskQueue, evaluations, baseline,
                   workerStatus, evalRows, judging, evCount, evTypes, runErrors, cn>>

\* persistTaskStep, service.ts:546-571, for the retrieve step (orchestrator.ts:333)
StepRetrieve(w) ==
    /\ wk[w].pc = "l_retrieve"
    /\ execs' = [execs EXCEPT ![wk[w].exec] =
                    [@ EXCEPT !.steps = Append(@, <<wk[w].step, "retrieve">>)]]
    /\ wk' = SetWk(w, [wk[w] EXCEPT !.pc = "l_ev_r"])
    /\ UNCHANGED <<cfg, session, runStatus, runCost, runTotals, orch, taskQueue, evaluations, baseline,
                   workerStatus, taskStatus, evalRows, judging, evCount, evTypes, runErrors, cn>>

shouldForceContinueNever(done, stepIndex, cited, weak) == FALSE

\* shouldForceContinue, orchestrator.ts:481-486; `weak` stands for a signal
\* coverage below 0.75 or an answer that looks like missing content
shouldForceContinue(done, stepIndex, cited, weak) ==
    ~done /\ (stepIndex < 2 \/ weak \/ ~cited)

\* runPlanningStep, runActStep, runReflectStep with the persistTaskStep that
\* follows; the model call may throw.  The act result says done and whether
\* it has citations; the reflect result says shouldContinue and a stop reason,
\* overridden by shouldForceContinue (orchestrator.ts:479-490).
ModelCall(w) ==
    /\ wk[w].pc \in DOMAIN WorkerCallAt
    /\ \/ /\ FALSE \in Outcomes
          /\ wk' = SetWk(w, [wk[w] EXCEPT !.pc = "x_catch"])
          /\ UNCHANGED execs
       \/ /\ execs' = [execs EXCEPT ![wk[w].exec] =
                          [@ EXCEPT !.steps = Append(@, <<wk[w].step, WorkerCallAt[wk[w].pc].phase>>)]]
          /\ \E done \in ActOutcomes, cited \in ActOutcomes, weak \in BOOLEAN,
                shouldContinue \in BOOLEAN, isError \in BOOLEAN :
                LET force == shouldForceContinue(wk[w].done, wk[w].step, wk[w].cited, weak)
                IN wk' = SetWk(w,
                      CASE wk[w].pc = "l_plan" ->
                             [wk[w] EXCEPT !.pc = WorkerCallAt[wk[w].pc].next]
                        [] wk[w].pc = "l_act" ->
                             [wk[w] EXCEPT !.pc = WorkerCallAt[wk[w].pc].next, !.done = done,
                                           !.cited = cited]
                        [] wk[w].pc = "l_reflect" ->
                             [wk[w] EXCEPT !.pc = WorkerCallAt[wk[w].pc].next,
                                           !.cont = IF force THEN TRUE ELSE shouldContinue,
                                           !.reason = IF force THEN "continue"
                                                      ELSE IF isError THEN "error" ELSE "none"])
    /\ UNCHANGED <<cfg, session, runStatus, runCost, runTotals, orch, taskQueue, evaluations, baseline,
                   workerStatus, taskStatus, evalRows, judging, evCount, evTypes, runErrors, cn>>

\* applyUsage, orchestrator.ts:224-228: the local totals, then incrementRunCost
ApplyUsageRun(w) ==
    /\ wk[w].pc \in DOMAIN WorkerIncAt
    /\ runCost' = incrementRunCost(runCost, CallCost)
    /\ wk' = SetWk(w, [wk[w] EXCEPT !.tok = @ + CallTokens, !.pc = WorkerIncAt[wk[w].pc]])
    /\ UNCHANGED <<cfg, session, runStatus, runTotals, orch, taskQueue, evaluations, baseline,
                   workerStatus, taskStatus, execs, evalRows, judging, evCount, evTypes,
                   runErrors, cn>>

\* applyUsage, orchestrator.ts:229-249: updateTaskExecutionProgress and the
\* agent state; then the token test that follows the call (:418, :467)
ApplyUsageExecution(w) ==
    /\ wk[w].pc \in DOMAIN WorkerProgAt
    /\ execs' = [execs EXCEPT ![wk[w].exec] =
                    [@ EXCEPT !.stepCount = @ + WorkerProgAt[wk[w].pc].stepCountDelta,
                              !.tokens = @ + CallTokens,
                              !.cost = @ + CallCost]]
    /\ wk' = SetWk(w,
          IF wk[w].pc # "l_ref_prog" /\ TokenLimitReached(wk[w].tok, cfg.maxTokensPerTask)
          THEN [wk[w] EXCEPT !.stop = "token_limit", !.pc = "a_status"]
          ELSE [wk[w] EXCEPT !.pc = WorkerProgAt[wk[w].pc].next])
    /\ UNCHANGED <<cfg, session, runStatus, runCost, runTotals, orch, taskQueue, evaluations, baseline,
                   workerStatus, taskStatus, evalRows, judging, evCount, evTypes, runErrors, cn>>

StopAfterIterationDoneFirst(tok, maxTokens, done, cont, reason) ==
    IF done THEN "completed"
    ELSE IF TokenLimitReached(tok, maxTokens) THEN "token_limit"
    ELSE IF ~cont THEN (IF reason = "error" THEN "error" ELSE "completed")
    ELSE "continue"

\* orchestrator.ts:579-595 and the loop header :253: how the iteration ends
StopAfterIteration(tok, maxTokens, done, cont, reason) ==
    IF TokenLimitReached(tok, maxTokens) THEN "token_limit"
    ELSE IF done THEN "completed"
    ELSE IF ~cont THEN (IF reason = "error" THEN "error" ELSE "completed")
    ELSE "continue"

LoopEnd(w) ==
    /\ wk[w].pc = "l_end"
    /\ LET stop == StopAfterIteration(wk[w].tok, cfg.maxTokensPerTask, wk[w].done,
                                      wk[w].cont, wk[w].reason)
       IN wk' = SetWk(w,
             IF stop # "continue"
             THEN [wk[w] EXCEPT !.stop = stop, !.pc = "a_status", !.cited = TRUE]
             ELSE IF wk[w].step + 1 <= cfg.maxStepsPerTask
             THEN [wk[w] EXCEPT !.step = @ + 1, !.pc = "l_top", !.cited = TRUE]
             ELSE [wk[w] EXCEPT !.pc = "a_status", !.cited = TRUE])
    /\ UNCHANGED <<cfg, session, runStatus, runCost, runTotals, orch, taskQueue, evaluations, baseline,
                   workerStatus, taskStatus, execs, evalRows, judging, evCount, evTypes,
                   runErrors, cn>>

\* persistTaskAttempt, persistDeterministicChecks, then
\* updateRunStatus(evaluating), orchestrator.ts:618-632: the select, then the update
TaskUpdateRunStatus(w) ==
    /\ wk[w].pc = "a_status"
    /\ IF wk[w].rd = "none"
       THEN /\ wk' = SetWk(w, [wk[w] EXCEPT !.rd = runStatus])
            /\ UNCHANGED runStatus
       ELSE /\ runStatus' = IF UpdateRunStatusWrites(wk[w].rd, "evaluating")
                              THEN "evaluating" ELSE runStatus
            /\ wk' = SetWk(w, [wk[w] EXCEPT !.rd = "none", !.pc = "a_judge_wait"])
    /\ UNCHANGED <<cfg, session, runCost, runTotals, orch, taskQueue, evaluations, baseline,
                   workerStatus, taskStatus, execs, evalRows, judging, evCount, evTypes,
                   runErrors, cn>>

\* input.judgeLimit(...), orchestrator.ts:634 and :801: a slot of pLimit is taken
JudgeStart(w) ==
    /\ wk[w].pc = "a_judge_wait"
    /\ judging < Max2(1, cfg.judgeConcurrency)
    /\ judging' = judging + 1
    /\ wk' = SetWk(w, [wk[w] EXCEPT !.pc = "a_judge"])
    /\ UNCHANGED <<cfg, session, runStatus, runCost, runTotals, orch, taskQueue, evaluations, baseline,
                   workerStatus, taskStatus, execs, evalRows, evCount, evTypes, runErrors, cn>>

\* judgeTaskAttempt returns an evaluation or throws; the slot is released
JudgeEnd(w) ==
    /\ wk[w].pc = "a_judge"
    /\ judging' = judging - 1
    /\ \E outcome \in {"pass", "fail"} \cup {"throw" : ok \in Outcomes \ {TRUE}} :
          wk' = SetWk(w, IF outcome = "throw" THEN [wk[w] EXCEPT !.pc = "x_catch"]
                         ELSE [wk[w] EXCEPT !.pc = "a_eval", !.result = outcome])
    /\ UNCHANGED <<cfg, session, runStatus, runCost, runTotals, orch, taskQueue, evaluations, baseline,
                   workerStatus, taskStatus, execs, evalRows, evCount, evTypes, runErrors, cn>>

\* persistTaskEvaluation, service.ts:1293-1307: the insert into task_evaluations
InsertTaskEvaluationNoop(rows, task, phase, pass) == rows

InsertTaskEvaluation(rows, task, phase, pass) ==
    [rows EXCEPT ![<<task, phase, pass>>] = @ + 1]

\* persistTaskEvaluation, service.ts:1309: evaluation.pass ? "passed" : "failed"
TaskStatusOf(pass) == IF pass THEN "passed" ELSE "failed"

\* orchestrator.ts:648: evaluation.pass ? "passed" : "failed"
ExecutionStatusAlwaysFailed(pass) == "failed"

ExecutionStatusOf(pass) == IF pass THEN "passed" ELSE "failed"

\* persistTaskEvaluation, service.ts:1285-1307, called with the judge's
\* evaluation (orchestrator.ts:645) or with the fallback one (:694): the row
PersistEvaluation(w) ==
    /\ wk[w].pc \in {"a_eval", "x_eval"}
    /\ evalRows' = InsertTaskEvaluation(evalRows, wk[w].task, execs[wk[w].exec].phase,
                                        wk[w].result = "pass")
    /\ wk' = SetWk(w, [wk[w] EXCEPT !.pc = IF wk[w].pc = "a_eval" THEN "a_eval_st" ELSE "x_eval_st"])
    /\ UNCHANGED <<cfg, session, runStatus, runCost, runTotals, orch, taskQueue, evaluations, baseline,
                   workerStatus, taskStatus, execs, judging, evCount, evTypes, runErrors, cn>>

\* persistTaskEvaluation, service.ts:1309: updateTaskStatus(passed or failed)
PersistEvaluationStatus(w) ==
    /\ wk[w].pc \in {"a_eval_st", "x_eval_st"}
    /\ taskStatus' = [taskStatus EXCEPT ![wk[w].task] = TaskStatusOf(wk[w].result = "pass")]
    /\ wk' = SetWk(w, [wk[w] EXCEPT !.pc = IF wk[w].pc = "a_eval_st" THEN "a_final" ELSE "x_err"])
    /\ UNCHANGED <<cfg, session, runStatus, runCost, runTotals, orch, taskQueue, evaluations, baseline,
                   workerStatus, execs, evalRows, judging, evCount, evTypes, runErrors, cn>>

\* finalizeTaskExecution, service.ts:472-487, after the evaluation (orchestrator.ts:646)
FinalizeExecution(w) ==
    /\ wk[w].pc = "a_final"
    /\ execs' = [execs EXCEPT ![wk[w].exec] =
                    [@ EXCEPT !.status = ExecutionStatusOf(wk[w].result = "pass"),
                              !.stopReason = wk[w].stop]]
    /\ wk' = SetWk(w, [wk[w] EXCEPT !.pc = "a_ev"])
    /\ UNCHANGED <<cfg, session, runStatus, runCost, runTotals, orch, taskQueue, evaluations, baseline,
                   workerStatus, taskStatus, evalRows, judging, evCount, evTypes, runErrors, cn>>

\* the catch of executeTaskOnWorker, orchestrator.ts:668-692: the fallback
\* evaluation (pass = false) is built, then finalizeTaskExecution(error)
TaskCatch(w) ==
    /\ wk[w].pc = "x_catch"
    /\ execs' = [execs EXCEPT ![wk[w].exec] = [@ EXCEPT !.status = "error", !.stopReason = "error"]]
    /\ wk' = SetWk(w, [wk[w] EXCEPT !.pc = "x_eval", !.result = "fail"])
    /\ UNCHANGED <<cfg, session, runStatus, runCost, runTotals, orch, taskQueue, evaluations, baseline,
                   workerStatus, taskStatus, evalRows, judging, evCount, evTypes, runErrors, cn>>

\* orchestrator.ts:696-706: persistRunError(TASK_EXECUTION_ERROR)
TaskFallback(w) ==
    /\ wk[w].pc = "x_err"
    /\ runErrors' = [runErrors EXCEPT !["TASK_EXECUTION_ERROR"] = @ + 1]
    /\ wk' = SetWk(w, [wk[w] EXCEPT !.pc = "x_ev"])
    /\ UNCHANGED <<cfg, session, runStatus, runCost, runTotals, orch, taskQueue, evaluations, baseline,
                   workerStatus, taskStatus, execs, evalRows, judging, evCount, evTypes, cn>>

\* orchestrator.ts:777-783: the evaluation is pushed, then isRunCanceled is read
WorkerAfterTask(w) ==
    /\ wk[w].pc = "w_after"
    /\ evaluations' = IF wk[w].result = "null" THEN evaluations
                      ELSE Append(evaluations, EvaluationOf(wk[w].task, wk[w].result = "pass"))
    /\ wk' = SetWk(w, [wk[w] EXCEPT !.pc = IF isRunCanceled(runStatus) THEN "w_done" ELSE "w_idle"])
    /\ UNCHANGED <<cfg, session, runStatus, runCost, runTotals, orch, taskQueue, baseline,
                   workerStatus, taskStatus, execs, evalRows, judging, evCount, evTypes,
                   runErrors, cn>>

Next ==
    /\ \/ OrchStart
       \/ OrchUpdateRunStatus
       \/ OrchAppend
       \/ OrchIngest
       \/ OrchCheckCanceled
       \/ OrchPersistTasks
       \/ OrchEnsureRunWorkers
       \/ OrchSpawn
       \/ OrchAwait
       \/ OrchDecide
       \/ OrchGenerateSkill
       \/ OrchCatch
       \/ OrchFinalizeRun
       \/ CancelRoute
       \/ CancelUpdate
       \/ CancelAppend
       \/ \E w \in WorkerIds :
             \/ WorkerIdle(w)
             \/ WorkerPop(w)
             \/ WorkerRunning(w)
             \/ WorkerAppend(w)
             \/ TaskStart(w)
             \/ LoopTop(w)
             \/ LoopCost(w)
             \/ TaskSkip(w)
             \/ StepRetrieve(w)
             \/ ModelCall(w)
             \/ ApplyUsageRun(w)
             \/ ApplyUsageExecution(w)
             \/ LoopEnd(w)
             \/ TaskUpdateRunStatus(w)
             \/ JudgeStart(w)
             \/ JudgeEnd(w)
             \/ PersistEvaluation(w)
             \/ PersistEvaluationStatus(w)
             \/ FinalizeExecution(w)
             \/ TaskCatch(w)
             \/ TaskFallback(w)
             \/ WorkerAfterTask(w)
    /\ UNCHANGED <<evVars, jg, rc, ag>>

Spec == Init /\ [][Next]_vars

NextEvents ==
    /\ \/ \E a \in Appenders, r \in Runs : ApSelect(a, r)
       \/ \E a \in Appenders : ApInsert(a)
       \/ \E r \in Runs, after \in 0..MaxEvents, limit \in 1..MaxLimit : ReadAfter(r, after, limit)
    /\ UNCHANGED <<mainVars, jg, rc, ag>>

SpecEvents == InitEvents /\ [][NextEvents]_vars

\* the stream of run r1 against the end of its executeRun and one more appender
NextStream ==
    /\ \/ \E r \in Runs : ApSelect("a1", r)
       \/ ApInsert("a1")
       \/ FinFinalizeRun
       \/ FinSelect
       \/ FinInsert
       \/ ObsFetch
       \/ ObsCheck
    /\ UNCHANGED <<mainVars, jg, rc, ag>>

SpecStream == InitEvents /\ [][NextStream]_vars

\* a run without throwing calls, cancel request or optimization, whose start
\* is requested again while it executes and after it has finished
InitRestart == InitRunOf(RestartConfigs) /\ InitEv /\ jg = JudgeIdle /\ rc = ConfigIdle /\ ag = AggregateIdle

NextRestart ==
    /\ \/ OrchStart
       \/ OrchStartAgain
       \/ OrchUpdateRunStatus
       \/ OrchAppend
       \/ OrchIngest
       \/ OrchCheckCanceled
       \/ OrchPersistTasks
       \/ OrchEnsureRunWorkers
       \/ OrchSpawn
       \/ OrchAwait
       \/ OrchDecide
       \/ OrchFinalizeRun
       \/ \E w \in WorkerIds :
             \/ WorkerIdle(w)
             \/ WorkerPop(w)
             \/ WorkerRunning(w)
             \/ WorkerAppend(w)
             \/ TaskStart(w)
             \/ LoopTop(w)
             \/ LoopCost(w)
             \/ StepRetrieve(w)
             \/ ModelCall(w)
             \/ ApplyUsageRun(w)
             \/ ApplyUsageExecution(w)
             \/ LoopEnd(w)
             \/ TaskUpdateRunStatus(w)
             \/ JudgeStart(w)
             \/ JudgeEnd(w)
             \/ PersistEvaluation(w)
             \/ PersistEvaluationStatus(w)
             \/ FinalizeExecution(w)
             \/ WorkerAfterTask(w)
    /\ UNCHANGED <<evVars, jg, rc, ag>>

SpecRestart == InitRestart /\ [][NextRestart]_vars

(***************************************************************************)
(* The judge: lib/evaluation/deterministic-checks.ts and                   *)
(* lib/evaluation/judge.ts.  A score s is kept as s * Scale.               *)
(***************************************************************************)
Criteria == {"completeness", "correctness", "groundedness", "actionability"}

\* the rubric scores the judge model returns (scoreShapeSchema: 0..10)
ScoreValues == {2 * Scale, 7 * Scale, 10 * Scale}

RawScores == [Criteria -> ScoreValues]

\* Math.min(score, cap) for a cap that may be undefined ({})
Capped(score, cap) == IF cap = {} THEN score ELSE Min2(score, CHOOSE c \in cap : TRUE)

\* signalCoverage(...).ratio >= 0.45, deterministic-checks.ts:24-59 and :87
CoveragePassed(expected, matched) ==
    IF expected = 0 THEN TRUE ELSE 100 * matched >= 45 * expected

evaluateDeterministicGuardsNoCitationCheck(citationCount, expected, matched, answerSteps, stepCount, stopReason) ==
    [groundednessCap |-> {}, correctnessCap |-> {}, completenessCap |-> {}, actionabilityCap |-> {},
     passBlockedReasons |-> <<>>,
     checks |-> [citation_presence |-> TRUE, expected_signal_coverage |-> TRUE,
                 actionable_step_depth |-> TRUE, bounded_termination |-> TRUE]]

evaluateDeterministicGuards(citationCount, expected, matched, answerSteps, stepCount, stopReason) ==
    LET citationCheckPassed == citationCount > 0
        coveragePassed == CoveragePassed(expected, matched)
        stepCheckPassed == answerSteps >= 2 /\ stepCount >= 2
        stopReasonPassed == stopReason = "completed"
    IN [groundednessCap |-> IF citationCheckPassed THEN {} ELSE {3 * Scale},
        completenessCap |-> IF coveragePassed THEN {} ELSE {6 * Scale},
        actionabilityCap |-> IF stepCheckPassed THEN {} ELSE {6 * Scale},
        correctnessCap |-> IF stopReasonPassed THEN {} ELSE {Min2(10 * Scale, 8 * Scale)},
        passBlockedReasons |-> IF citationCheckPassed THEN <<>> ELSE <<"missing_citations">>,
        checks |-> [citation_presence |-> citationCheckPassed,
                    expected_signal_coverage |-> coveragePassed,
                    actionable_step_depth |-> stepCheckPassed,
                    bounded_termination |-> stopReasonPassed]]

\* averageScores, judge.ts:19-24
averageScores(scores) ==
    (scores.completeness + scores.correctness + scores.groundedness + scores.actionability) \div 4

\* applyGuardrails, judge.ts:26-67
applyGuardrails(rawScores, citationCount, answerSteps, unsupportedClaims, guards) ==
    LET g1 == IF citationCount = 0 THEN Min2(rawScores.groundedness, 4 * Scale)
              ELSE rawScores.groundedness
        a1 == IF answerSteps < 2 THEN Min2(rawScores.actionability, 6 * Scale)
              ELSE rawScores.actionability
        c1 == IF unsupportedClaims > 0 THEN Min2(rawScores.correctness, 6 * Scale)
              ELSE rawScores.correctness
        g2 == IF unsupportedClaims > 0 THEN Min2(g1, 5 * Scale) ELSE g1
        next == [completeness |-> Capped(rawScores.completeness, guards.completenessCap),
                 correctness |-> Capped(c1, guards.correctnessCap),
                 groundedness |-> Capped(g2, guards.groundednessCap),
                 actionability |-> Capped(a1, guards.actionabilityCap)]
    IN [completeness |-> next.completeness, correctness |-> next.correctness,
        groundedness |-> next.groundedness, actionability |-> next.actionability,
        average |-> averageScores(next)]

\* Number(((a + b) / 2).toFixed(2)), judge.ts:205-209: the mean rounded to
\* hundredths, halves upwards
MeanFixed2(a, b) == (a + b + 1) \div 2

\* judge.ts:191: the band in which the rubric is asked a second time
InTieBreakBand(average) == 2 * average >= 13 * Scale /\ 2 * average <= 15 * Scale

\* judge.ts:204-210
TieBreakScores(initial, rerun) ==
    [completeness |-> MeanFixed2(initial.completeness, rerun.completeness),
     correctness |-> MeanFixed2(initial.correctness, rerun.correctness),
     groundedness |-> MeanFixed2(initial.groundedness, rerun.groundedness),
     actionability |-> MeanFixed2(initial.actionability, rerun.actionability),
     average |-> MeanFixed2(initial.average, rerun.average)]

\* judge.ts:228: pass = qualityPass && validityPass
PassOfQualityOnly(qualityPass, validityPass) == qualityPass

PassOf(qualityPass, validityPass) == qualityPass /\ validityPass

\* judge.ts:218-228
Verdict(finalScores, isSupportedByEvidence, guards) ==
    LET passBlocked == Len(guards.passBlockedReasons) > 0
        qualityPass == finalScores.average >= PASS_THRESHOLD * Scale
        validityBlockedReasons ==
            (IF ~isSupportedByEvidence THEN <<"unsupported_by_evidence">> ELSE <<>>)
            \o (IF passBlocked THEN guards.passBlockedReasons ELSE <<>>)
        validityPass == Len(validityBlockedReasons) = 0
    IN [pass |-> PassOf(qualityPass, validityPass), qualityPass |-> qualityPass,
        validityPass |-> validityPass, validityBlockedReasons |-> validityBlockedReasons,
        criterionScores |-> finalScores, passBlocked |-> passBlocked]

\* the attempts and settings a judgeTaskAttempt call is made with
JudgeInputs ==
    [citations : 0..MaxCitations, answerSteps : 1..MaxAnswerSteps, stepCount : 1..MaxAnswerSteps,
     stopReason : {"completed", "step_limit"},
     signals : {sg \in [expected : 0..MaxSignals, matched : 0..MaxSignals] : sg.matched <= sg.expected},
     tieBreakEnabled : BOOLEAN]

InitJudge ==
    /\ InitRun
    /\ cfg.enableSkillOptimization /\ cfg.executionConcurrency = 1
    /\ InitEv
    /\ \E in \in JudgeInputs : jg = [pc |-> "guards", in |-> in]
    /\ rc = ConfigIdle /\ ag = AggregateIdle

\* evaluateDeterministicGuards, orchestrator.ts:620-625
EvaluateGuards ==
    /\ jg.pc = "guards"
    /\ jg' = [pc |-> "alignment", in |-> jg.in,
              guards |-> evaluateDeterministicGuards(jg.in.citations, jg.in.signals.expected,
                             jg.in.signals.matched, jg.in.answerSteps, jg.in.stepCount,
                             jg.in.stopReason)]

\* evaluateAlignment, judge.ts:168: what the judge model answers
EvaluateAlignment ==
    /\ jg.pc = "alignment"
    /\ \E supported \in BOOLEAN, claims \in 0..MaxClaims :
          jg' = [pc |-> "rubric", in |-> jg.in, guards |-> jg.guards,
                 alignment |-> [isSupportedByEvidence |-> supported, unsupportedClaims |-> claims]]

\* evaluateRubric and applyGuardrails, judge.ts:169-191
EvaluateRubric ==
    /\ jg.pc = "rubric"
    /\ \E rawScores \in RawScores :
          LET initial == applyGuardrails(rawScores, jg.in.citations, jg.in.answerSteps,
                                         jg.alignment.unsupportedClaims, jg.guards)
              tie == jg.in.tieBreakEnabled /\ InTieBreakBand(initial.average)
          IN jg' = [pc |-> IF tie THEN "rerubric" ELSE "verdict", in |-> jg.in,
                    guards |-> jg.guards, alignment |-> jg.alignment,
                    tieBroken |-> FALSE, scores |-> initial]

\* the tie-break: the second rubric and the mean of both, judge.ts:191-211
EvaluateRerubric ==
    /\ jg.pc = "rerubric"
    /\ \E rawScores \in RawScores :
          LET rerun == applyGuardrails(rawScores, jg.in.citations, jg.in.answerSteps,
                                       jg.alignment.unsupportedClaims, jg.guards)
          IN jg' = [jg EXCEPT !.pc = "verdict", !.tieBroken = TRUE,
                              !.scores = TieBreakScores(jg.scores, rerun)]

\* judge.ts:218-261: the verdict judgeTaskAttempt returns
JudgeVerdict ==
    /\ jg.pc = "verdict"
    /\ jg' = [pc |-> "done", in |-> jg.in, guards |-> jg.guards, alignment |-> jg.alignment,
              tieBroken |-> jg.tieBroken,
              result |-> Verdict(jg.scores, jg.alignment.isSupportedByEvidence, jg.guards)]

NextJudge ==
    /\ \/ EvaluateGuards
       \/ EvaluateAlignment
       \/ EvaluateRubric
       \/ EvaluateRerubric
       \/ JudgeVerdict
    /\ UNCHANGED <<evVars, mainVars, rc, ag>>

SpecJudge == InitJudge /\ [][NextJudge]_vars

(***************************************************************************)
(* buildRunConfig and normalizeAssignments, service.ts:151-260: the worker  *)
(* configuration of a create-run request.  An assignment is kept as its     *)
(* model and its quantity; "run" is the run model of the request.           *)
(***************************************************************************)
MaxAssignments == 2
MaxQuantity == 13
DEFAULT_WORKER_COUNT == 3
MAX_WORKER_COUNT == 12

AssignmentModels == {"run", "other"}

\* WorkerAssignmentInput, service.ts:1438-1448
AssignmentInputs == [model : AssignmentModels, quantity : 0..MaxQuantity]

AssignmentLists == UNION {[1..n -> AssignmentInputs] : n \in 0..MaxAssignments}

\* buildDefaultRunConfig().workerConfig, env.ts:100-109
DefaultWorkerConfig ==
    [workerCount |-> DEFAULT_WORKER_COUNT,
     assignments |-> <<[model |-> "run", quantity |-> DEFAULT_WORKER_COUNT]>>]

\* CreateRunRequest.workers, service.ts:1487-1490: the optional fields carry a
\* flag telling whether they are given
WorkerRequests ==
    {[given |-> FALSE, hasWorkerCount |-> FALSE, workerCount |-> 0,
      hasAssignments |-> FALSE, assignments |-> <<>>]}
    \cup {[given |-> TRUE, hasWorkerCount |-> c.has, workerCount |-> c.value,
           hasAssignments |-> a.has, assignments |-> a.value] :
             c \in {[has |-> FALSE, value |-> 0]} \cup [has : {TRUE}, value : 0..MaxQuantity],
             a \in {[has |-> FALSE, value |-> <<>>]} \cup [has : {TRUE}, value : AssignmentLists]}

RECURSIVE SumQuantity(_)
\* baseAssignments.reduce((acc, a) => acc + a.quantity, 0), service.ts:183
SumQuantity(assignments) ==
    IF assignments = <<>> THEN 0 ELSE assignments[1].quantity + SumQuantity(Tail(assignments))

RECURSIVE Truncate(_, _)
\* the loop of service.ts:199-213: the assignments are taken in order until
\* the requested count is used up
Truncate(assignments, remaining) ==
    IF assignments = <<>> \/ remaining <= 0 THEN <<>>
    ELSE LET quantity == Min2(assignments[1].quantity, remaining)
         IN <<[assignments[1] EXCEPT !.quantity = quantity]>>
            \o Truncate(Tail(assignments), remaining - quantity)

normalizeAssignmentsNoTruncation(requestedWorkerCount, assignments, fallbackModel) ==
    LET fallback == <<[model |-> fallbackModel, quantity |-> requestedWorkerCount]>>
        baseAssignments == IF Len(assignments) > 0
                           THEN SelectSeq(assignments, LAMBDA a : a.quantity > 0)
                           ELSE fallback
        sum == SumQuantity(baseAssignments)
    IN IF Len(baseAssignments) = 0 THEN fallback
       ELSE IF sum < requestedWorkerCount
       THEN Append(baseAssignments,
                   [model |-> fallbackModel, quantity |-> requestedWorkerCount - sum])
       ELSE baseAssignments

\* normalizeAssignments, service.ts:151-214
normalizeAssignments(requestedWorkerCount, assignments, fallbackModel) ==
    LET fallback == <<[model |-> fallbackModel, quantity |-> requestedWorkerCount]>>
        baseAssignments == IF Len(assignments) > 0
                           THEN SelectSeq(assignments, LAMBDA a : a.quantity > 0)
                           ELSE fallback
        sum == SumQuantity(baseAssignments)
    IN IF Len(baseAssignments) = 0 THEN fallback
       ELSE IF sum = requestedWorkerCount THEN baseAssignments
       ELSE IF sum < requestedWorkerCount
       THEN Append(baseAssignments,
                   [model |-> fallbackModel, quantity |-> requestedWorkerCount - sum])
       ELSE Truncate(baseAssignments, requestedWorkerCount)

\* buildRunConfig, service.ts:216-260: the workerConfig of the result
buildRunConfig(workers) ==
    LET requestedWorkerCount ==
            Max2(1, Min2(IF workers.given /\ workers.hasWorkerCount THEN workers.workerCount
                         ELSE DefaultWorkerConfig.workerCount,
                         MAX_WORKER_COUNT))
        assignments ==
            normalizeAssignments(requestedWorkerCount,
                                 IF workers.given /\ workers.hasAssignments
                                 THEN workers.assignments
                                 ELSE DefaultWorkerConfig.assignments,
                                 "run")
    IN [workerConfig |-> [workerCount |-> requestedWorkerCount, assignments |-> assignments]]

InitConfig ==
    /\ InitRunOf(RestartConfigs) /\ InitEv /\ jg = JudgeIdle /\ ag = AggregateIdle
    /\ \E workers \in WorkerRequests : rc = [pc |-> "request", workers |-> workers]

\* createRun calls buildRunConfig on the request, service.ts:262-266
BuildRunConfig ==
    /\ rc.pc = "request"
    /\ rc' = [pc |-> "built", workers |-> rc.workers, config |-> buildRunConfig(rc.workers)]

NextConfig ==
    /\ BuildRunConfig
    /\ UNCHANGED <<evVars, mainVars, jg, ag>>

SpecConfig == InitConfig /\ [][NextConfig]_vars

(***************************************************************************)
(* aggregateRunScores, aggregate.ts:3-39, on the evaluations a phase has    *)
(* collected.                                                               *)
(***************************************************************************)
MaxEvaluations == 3

\* FailureClass | null, types.ts:21-28 (two of the classes)
FailureClasses == {"missing_content", "poor_structure"}

\* criterionScores.average, in hundredths (8 and 3.75, aggregate.test.ts:12-31)
AverageValues == {8 * Scale, 3 * Scale + 75}

EvaluationResults ==
    [pass : BOOLEAN, failureClass : FailureClasses \cup {"null"}, average : AverageValues]

InitAggregate ==
    /\ InitRunOf(RestartConfigs) /\ InitEv /\ jg = JudgeIdle /\ rc = ConfigIdle
    /\ ag = [pc |-> "collect", evaluations |-> <<>>]

\* evaluations.push(evaluation), orchestrator.ts:777-779
CollectEvaluation ==
    /\ ag.pc = "collect"
    /\ Len(ag.evaluations) < MaxEvaluations
    /\ \E e \in EvaluationResults : ag' = [ag EXCEPT !.evaluations = Append(@, e)]

\* aggregateRunScores(evaluations), orchestrator.ts:910, :919, :1041
Aggregate ==
    /\ ag.pc = "collect"
    /\ ag' = [pc |-> "done", evaluations |-> ag.evaluations,
              totals |-> aggregateRunScores(ag.evaluations)]

NextAggregate ==
    /\ CollectEvaluation \/ Aggregate
    /\ UNCHANGED <<evVars, mainVars, jg, rc>>

SpecAggregate == InitAggregate /\ [][NextAggregate]_vars

(***************************************************************************)
(* Properties of the event log.                                            *)
(***************************************************************************)
RunRows(r) == {e \in RowsOf(runEvents) : e.run = r}

RunRowCount(r) == Cardinality({i \in DOMAIN runEvents : runEvents[i].run = r})

\* C5: the stored events of every run have pairwise distinct seq values and
\* the seq values are exactly 1..N for the N stored events of the run, for
\* any interleaving of the concurrent callers of appendRunEvent.
C5_SeqDenseUnique ==
    \A r \in Runs :
        /\ \A i, j \in DOMAIN runEvents :
              (runEvents[i].run = r /\ runEvents[j].run = r /\ i # j)
                  => runEvents[i].seq # runEvents[j].seq
        /\ {e.seq : e \in RunRows(r)} = 1..RunRowCount(r)

\* two callers raced on one seq of run r1 (one of them was rejected) and both
\* have stored events in r1 afterwards
C5_Witness ==
    /\ \A a \in Appenders : ap[a].ok >= 1 /\ ap[a].run = "r1"
    /\ \E a \in Appenders : ap[a].err >= 1
    /\ RunRowCount("r1") >= 3

\* C6: every appendRunEvent call of concurrent appenders inserts one row and
\* returns; a seq conflict is never surfaced to the caller as an error, so
\* the calls that have ended are as many as the rows they stored.
C6_NoAppendRejected ==
    \A a \in Appenders : ap[a].err = 0

C8_StreamComplete ==
    obs.pc = "closed" =>
        /\ \A e \in RunRows("r1") :
              Cardinality({i \in DOMAIN obs.got : obs.got[i] = e.id}) = 1
        /\ \E e \in RunRows("r1") :
              /\ e.type \in TerminalEvents
              /\ \E i \in DOMAIN obs.got : obs.got[i] = e.id

(***************************************************************************)
(* Properties of the run lifecycle.                                        *)
(***************************************************************************)
CancelWritten == cn.pc \in {"append", "done", "error"}

ExecuteRunReturned == orch.pc \in {"done", "rejected"}

RECURSIVE SumCost(_)
SumCost(rows) == IF rows = <<>> THEN 0 ELSE Head(rows).cost + SumCost(Tail(rows))

\* C1: once the run's status is completed, failed or canceled, no step of
\* updateRunStatus, finalizeRun or cancelRun sets it to a non-terminal status.
C1_TerminalSticky ==
    [][IsTerminal(runStatus) => IsTerminal(runStatus')]_vars

\* C2: if cancelRun wrote canceled over a non-terminal status and no error
\* was recorded for the run, the run's status is canceled when executeRun
\* has returned.
C2_CancelEndsCanceled ==
    (/\ ExecuteRunReturned
     /\ CancelWritten /\ ~IsTerminal(cn.rd)
     /\ \A c \in ErrorCodes : runErrors[c] = 0) => runStatus = "canceled"

\* C3: after cancelRun has written the canceled status, no task.step.created
\* event is appended for the run.
C3_NoStepEventAfterCancel ==
    [][CancelWritten => evTypes'["task.step.created"] = evTypes["task.step.created"]]_vars

\* C4: once the run is terminal, no task execution of the run is created or
\* changed (progress counters, status, stop reason, step traces) and the
\* run's cost is not incremented.
C4_NoWriteAfterTerminal ==
    [][IsTerminal(runStatus) => (execs' = execs /\ runCost' = runCost)]_vars

\* C9: within one phase no two worker activities hold the same task, and at
\* most one task execution exists for each (task, phase).
C9_OneExecutionPerTaskPhase ==
    /\ \A i, j \in DOMAIN execs :
          i # j => <<execs[i].task, execs[i].phase>> # <<execs[j].task, execs[j].phase>>
    /\ \A v, w \in WorkerIds :
          (v # w /\ wk[v].task # "none" /\ wk[w].task # "none") => wk[v].task # wk[w].task

\* two workers popping the shared queue concurrently have each created an
\* execution in the same phase
C9_Witness ==
    \E i, j \in DOMAIN execs :
        /\ execs[i].worker # execs[j].worker
        /\ execs[i].phase = execs[j].phase
        /\ execs[i].status = "running" /\ execs[j].status = "running"

C11_LimitThresholds ==
    /\ \A w \in WorkerIds :
          /\ wk[w].stop = "token_limit" => wk[w].tok >= cfg.maxTokensPerTask
          /\ wk[w].stop = "cost_limit" => runCost >= cfg.hardCostCapUsd
    /\ \A i \in DOMAIN execs :
          /\ execs[i].stopReason = "token_limit" => execs[i].tokens >= cfg.maxTokensPerTask
          /\ execs[i].stopReason = "cost_limit" => runCost >= cfg.hardCostCapUsd

\* an execution that ran more than one model call was finalized with token_limit
C11_Witness ==
    \E i \in DOMAIN execs :
        /\ execs[i].stopReason = "token_limit"
        /\ execs[i].status \in {"passed", "failed"}
        /\ execs[i].tokens > CallTokens

\* C12: with no cancel request, a task that met the cost cap before its first
\* iteration leaves executeTaskOnWorker with its execution skipped with
\* stopReason cost_limit, no TaskEvaluation row for it in the phase, and no
\* evaluation returned for the phase totals.
C12_CostCapSkips ==
    \A w \in WorkerIds :
        (cn.pc = "idle" /\ wk[w].pc = "w_after" /\ wk[w].stop = "cost_limit" /\ wk[w].step = 1) =>
            /\ execs[wk[w].exec].status = "skipped"
            /\ execs[wk[w].exec].stopReason = "cost_limit"
            /\ \A pass \in BOOLEAN : evalRows[<<wk[w].task, execs[wk[w].exec].phase, pass>>] = 0
            /\ wk[w].result = "null"

(***************************************************************************)
(* Properties of the evaluations.                                          *)
(***************************************************************************)
EvaluationRows(task, phase) ==
    evalRows[<<task, phase, TRUE>>] + evalRows[<<task, phase, FALSE>>]

\* C13: every task execution with status passed or failed has exactly one
\* TaskEvaluation row for its (task, phase), and that row has pass = true
\* iff the status is passed.
C13_OneEvaluationPerExecution ==
    \A i \in DOMAIN execs :
        execs[i].status \in {"passed", "failed"} =>
            /\ EvaluationRows(execs[i].task, execs[i].phase) = 1
            /\ evalRows[<<execs[i].task, execs[i].phase, TRUE>>] = 1 <=> execs[i].status = "passed"

\* the append of task.execution.completed was rejected after the evaluation
\* was persisted and the execution finalized as passed
C13_Witness ==
    \E w \in WorkerIds :
        /\ wk[w].pc = "x_catch"
        /\ execs[wk[w].exec].status = "passed"
        /\ evalRows[<<wk[w].task, execs[wk[w].exec].phase, TRUE>>] = 1

\* C14: every task whose status is passed or failed has at least one
\* TaskEvaluation row, in some phase.
C14_EvaluatedTaskHasRow ==
    \A t \in Tasks :
        taskStatus[t] \in {"passed", "failed"} => \E p \in Phases : EvaluationRows(t, p) >= 1

\* a task passed by the judge and a task failed by the fallback evaluation
C14_Witness ==
    \E t \in Tasks :
        /\ taskStatus[t] = "failed"
        /\ \E i \in DOMAIN execs : execs[i].task = t /\ execs[i].status = "error"

\* C15: judgeTaskAttempt returns pass = qualityPass /\ validityPass, where
\* qualityPass holds iff the final average is at least 7 and validityPass
\* holds iff validityBlockedReasons is empty; an evaluation with a non-empty
\* validityBlockedReasons has pass = false.
C15_PassRule ==
    jg.pc = "done" =>
        /\ jg.result.pass <=> (jg.result.qualityPass /\ jg.result.validityPass)
        /\ jg.result.qualityPass <=> jg.result.criterionScores.average >= PASS_THRESHOLD * Scale
        /\ jg.result.validityPass <=> jg.result.validityBlockedReasons = <<>>
        /\ jg.result.validityBlockedReasons # <<>> => ~jg.result.pass

\* an evaluation whose scores pass the threshold and which is blocked
C15_Witness ==
    /\ jg.pc = "done"
    /\ jg.result.qualityPass
    /\ jg.result.validityBlockedReasons # <<>>
    /\ ~jg.result.pass

\* C16: for an attempt with zero citations, citation_presence fails with
\* groundednessCap 3 and a missing_citations block, and the evaluation has
\* groundedness at most 3 and pass = false, also after tie-break averaging.
C16_MissingCitations ==
    /\ (jg.pc \notin {"idle", "guards"} /\ jg.in.citations = 0) =>
          /\ ~jg.guards.checks.citation_presence
          /\ jg.guards.groundednessCap = {3 * Scale}
          /\ \E k \in DOMAIN jg.guards.passBlockedReasons :
                jg.guards.passBlockedReasons[k] = "missing_citations"
    /\ (jg.pc = "done" /\ jg.in.citations = 0) =>
          /\ jg.result.criterionScores.groundedness <= 3 * Scale
          /\ ~jg.result.pass

\* an attempt without citations judged with a tie-break and an average of at
\* least 7
C16_Witness ==
    /\ jg.pc = "done"
    /\ jg.in.citations = 0
    /\ jg.tieBroken
    /\ jg.result.qualityPass

(***************************************************************************)
(* Properties of the error handling.                                       *)
(***************************************************************************)
\* the worker activity was rejected by an error thrown inside the catch of
\* executeTaskOnWorker for its current task
RejectedInHandler(w) ==
    /\ wk[w].pc = "w_rejected"
    /\ wk[w].exec > 0
    /\ execs[wk[w].exec].task = wk[w].task
    /\ execs[wk[w].exec].status = "error"

\* C17: with no cancel request, an error thrown inside the try of
\* executeTaskOnWorker never rejects the worker activity (the run is not
\* failed by it), and when the handler has returned the execution is
\* finalized as error, a fallback evaluation with pass = false is persisted
\* and returned for the phase totals, and the task's status is failed.
C17_TaskErrorContained ==
    \A w \in WorkerIds :
        cn.pc = "idle" =>
            /\ ~RejectedInHandler(w)
            /\ (wk[w].pc = "w_after" /\ execs[wk[w].exec].status = "error") =>
                  /\ evalRows[<<wk[w].task, execs[wk[w].exec].phase, FALSE>>] >= 1
                  /\ wk[w].result = "fail"
                  /\ taskStatus[wk[w].task] = "failed"

\* C18: with no cancel request, when executeRun has returned after an error
\* escaped the per-task handler of a worker activity, a RUN_FATAL run error
\* exists, the run's status is failed and a run.failed event was appended.
C18_EscapedErrorFailsRun ==
    (ExecuteRunReturned /\ cn.pc = "idle" /\ \E w \in WorkerIds : wk[w].pc = "w_rejected") =>
        /\ runErrors["RUN_FATAL"] >= 1
        /\ runStatus = "failed"
        /\ evTypes["run.failed"] >= 1

(***************************************************************************)
(* Properties of the entry points.                                         *)
(***************************************************************************)
\* C19: a call of startRunInBackground for a run that was already started,
\* made while its execution is in flight or after it has finished, starts no
\* executeRun and changes nothing of the run's state.
C19_StartIdempotent ==
    [][(orch.calls >= 1 /\ orch'.calls = orch.calls + 1) =>
          /\ orch'.pc = orch.pc
          /\ UNCHANGED <<runStatus, runCost, runTotals, taskStatus, execs, evalRows, evCount,
                         evTypes, runErrors, workerStatus>>]_vars

\* C20: cancelRun writes the canceled status only over a non-terminal status.
C20_CancelOnlyNonTerminal ==
    CancelWritten => ~IsTerminal(cn.rd)

OptimizedExecutions == {i \in DOMAIN execs : execs[i].phase = "optimized"}

\* the baseline phase ended without a cancellation being seen (its totals are
\* recorded on the session) and the optimization has nothing to do
BaselineSuffices ==
    /\ session.baselineTotals # Null
    /\ ~cfg.enableSkillOptimization \/ \A i \in DOMAIN baseline : baseline[i].pass

\* C21: when the baseline phase ends without a cancellation and the
\* optimization is disabled or no baseline evaluation failed, no optimized
\* execution is created, the session is skipped with the baseline totals, and
\* the run is finalized completed with the baseline totals.
C21_SkipKeepsBaselineTotals ==
    BaselineSuffices =>
        /\ OptimizedExecutions = {}
        /\ orch.phase = "baseline"
        /\ orch.pc \in {"fz_base", "ev_base", "done", "catch", "fz_failed", "ev_failed", "rejected"}
        /\ session.status = "skipped"
        /\ session.baselineTotals = aggregateRunScores(baseline)
        /\ session.optimizedTotals = aggregateRunScores(baseline)
        /\ orch.pc = "ev_base" =>
              /\ runTotals = aggregateRunScores(baseline)
              /\ cn.pc = "idle" => runStatus = "completed"

\* a run with the optimization disabled has just been finalized after a
\* baseline phase in which one of two tasks failed
C21_Witness ==
    /\ BaselineSuffices /\ orch.pc = "ev_base" /\ ~cfg.enableSkillOptimization
    /\ runStatus = "completed" /\ runTotals # Null
    /\ runTotals.totalTasks = 2 /\ runTotals.failedTasks = 1

\* the skill-generation call of the optimization has failed: the catch of the
\* optimization is entered before the optimized phase was started
SkillGenerationFailed == orch.phase = "baseline" /\ orch.pc \in {"fz_err", "ev_err"}

\* C22: when the skill-generation call fails, the session is set to error
\* with the message, no optimized execution is created, and the run is
\* finalized completed with the baseline totals.
C22_SkillErrorKeepsBaselineTotals ==
    SkillGenerationFailed =>
        /\ session.status = "error" /\ session.errorMessage # Null
        /\ session.baselineTotals = aggregateRunScores(baseline)
        /\ OptimizedExecutions = {}
        /\ runErrors["SKILL_OPTIMIZATION_ERROR"] = 1
        /\ orch.pc = "ev_err" =>
              /\ runTotals = aggregateRunScores(baseline)
              /\ cn.pc = "idle" => runStatus = "completed"

\* the run has been finalized after the skill generation failed on a baseline
\* with a failed task
C22_Witness ==
    /\ SkillGenerationFailed /\ orch.pc = "ev_err" /\ cn.pc = "idle"
    /\ runStatus = "completed" /\ runTotals # Null /\ runTotals.failedTasks = 1

FinalizesCanceled == orch.pc \in {"fz_cancel_null", "fz_cancel"} /\ orch' # orch

\* C24 as stated: a run finalized as canceled has null totals when no
\* evaluation had been produced before the cancellation was observed, and
\* otherwise the aggregate of exactly the evaluations produced so far.
C24_CanceledTotalsNullWhenEmpty ==
    [][FinalizesCanceled =>
          runTotals' = IF evaluations = <<>> THEN Null ELSE aggregateRunScores(evaluations)]_vars

\* C24 amended: a run finalized as canceled has null totals when the
\* cancellation is observed before the baseline phase was started, and
\* otherwise the aggregate of exactly the evaluations produced so far, which
\* is the all-zero aggregate when none was produced.
C24_CanceledTotals ==
    [][FinalizesCanceled =>
          /\ runStatus' = "canceled"
          /\ runTotals' = IF session.status = "running" THEN aggregateRunScores(evaluations)
                           ELSE Null]_vars

\* a run canceled in the baseline phase before any evaluation was produced
\* has been finalized with the all-zero aggregate
C24_Witness ==
    /\ orch.pc = "ev_canceled" /\ runStatus = "canceled" /\ evaluations = <<>>
    /\ runTotals = aggregateRunScores(<<>>)

\* the position of a non-terminal status in the order of the lifecycle
StatusRank(status) ==
    CASE status = "queued" -> 0
      [] status = "ingesting" -> 1
      [] status = "generating_tasks" -> 2
      [] status = "running" -> 3
      [] status = "evaluating" -> 4
      [] OTHER -> 5

\* C25: every change of the run's status goes forward along queued,
\* ingesting, generating_tasks, running, evaluating, or goes from a
\* non-terminal status to a terminal one; it never moves back.
C25_StatusMovesForward ==
    [][runStatus' # runStatus =>
          /\ ~IsTerminal(runStatus)
          /\ IsTerminal(runStatus') \/ StatusRank(runStatus') > StatusRank(runStatus)]_vars

\* the assignments of the request with a positive quantity, or the default
\* assignments when the request gives none
RequestedAssignments ==
    SelectSeq(IF rc.workers.given /\ rc.workers.hasAssignments THEN rc.workers.assignments
              ELSE DefaultWorkerConfig.assignments,
              LAMBDA a : a.quantity > 0)

\* the worker count asked for, or the default when the request gives none
RequestedWorkerCount ==
    IF rc.workers.given /\ rc.workers.hasWorkerCount THEN rc.workers.workerCount
    ELSE DefaultWorkerConfig.workerCount

\* C26: buildRunConfig returns a workerConfig whose workerCount is the
\* requested count clamped to 1..MAX_WORKER_COUNT and whose assignment
\* quantities are all positive and sum exactly to workerCount; quantities
\* that sum to less are topped up with the run model, quantities that sum to
\* more are truncated.
C26_AssignmentsSumToWorkerCount ==
    rc.pc = "built" =>
        LET wc == rc.config.workerConfig
            asked == RequestedAssignments
        IN /\ wc.workerCount \in 1..MAX_WORKER_COUNT
           /\ RequestedWorkerCount \in 1..MAX_WORKER_COUNT => wc.workerCount = RequestedWorkerCount
           /\ RequestedWorkerCount < 1 => wc.workerCount = 1
           /\ RequestedWorkerCount > MAX_WORKER_COUNT => wc.workerCount = MAX_WORKER_COUNT
           /\ \A i \in DOMAIN wc.assignments : wc.assignments[i].quantity > 0
           /\ SumQuantity(wc.assignments) = wc.workerCount
           /\ SumQuantity(asked) < wc.workerCount =>
                 /\ Len(wc.assignments) = Len(asked) + 1
                 /\ SubSeq(wc.assignments, 1, Len(asked)) = asked
                 /\ wc.assignments[Len(asked) + 1] =
                       [model |-> "run", quantity |-> wc.workerCount - SumQuantity(asked)]
           /\ SumQuantity(asked) >= wc.workerCount =>
                 /\ Len(wc.assignments) <= Len(asked)
                 /\ \A i \in DOMAIN wc.assignments :
                       /\ wc.assignments[i].model = asked[i].model
                       /\ wc.assignments[i].quantity <= asked[i].quantity

\* a request for more workers than MAX_WORKER_COUNT whose two assignments sum
\* to more than the clamped count has been cut down to one assignment
C26_Witness ==
    /\ rc.pc = "built"
    /\ RequestedWorkerCount > MAX_WORKER_COUNT
    /\ Len(RequestedAssignments) = 2
    /\ SumQuantity(RequestedAssignments) > MAX_WORKER_COUNT
    /\ Len(rc.config.workerConfig.assignments) = 1
    /\ rc.config.workerConfig.assignments[1].quantity = MAX_WORKER_COUNT

\* C27: aggregateRunScores returns totalTasks = the number of evaluations,
\* passedTasks = the number with pass, failedTasks = totalTasks - passedTasks,
\* passRate = passedTasks / totalTasks, and a failureBreakdown counting each
\* non-null failureClass; for the empty list all totals are 0 and the
\* failureBreakdown is empty.
C27_AggregateTotals ==
    ag.pc = "done" =>
        LET evs == ag.evaluations
            t == ag.totals
            passed == Cardinality({i \in DOMAIN evs : evs[i].pass})
            count(c) == Cardinality({i \in DOMAIN evs : evs[i].failureClass = c})
        IN /\ t.totalTasks = Len(evs)
           /\ t.passedTasks = passed
           /\ t.failedTasks = Len(evs) - passed
           /\ t.passRate.den > 0
           /\ t.passRate.num * (IF evs = <<>> THEN 1 ELSE Len(evs)) = passed * t.passRate.den
           /\ evs = <<>> => t.passRate.num = 0 /\ t.averageScore.num = 0
           /\ DOMAIN t.failureBreakdown \subseteq FailureClasses
           /\ \A c \in FailureClasses :
                 count(c) = IF c \in DOMAIN t.failureBreakdown THEN t.failureBreakdown[c] ELSE 0

\* the two evaluations of aggregate.test.ts:5-41 have been aggregated: one
\* passed, one failed with missing_content, pass rate one half
C27_Witness ==
    /\ ag.pc = "done"
    /\ ag.evaluations = <<[pass |-> TRUE, failureClass |-> "null", average |-> 8 * Scale],
                          [pass |-> FALSE, failureClass |-> "missing_content",
                           average |-> 3 * Scale + 75]>>
    /\ ag.totals.totalTasks = 2 /\ ag.totals.passedTasks = 1
    /\ ag.totals.passRate = [num |-> 1, den |-> 2]
    /\ ag.totals.failureBreakdown["missing_content"] = 1

\* the execution of worker w starts its next phase in this step: the plan call
\* after the retrieval, the act call after the plan, the reflect call after
\* the act
StartsNextPhase(w) ==
    \/ wk[w].pc = "l_ev_r" /\ wk'[w].pc = "l_plan"
    \/ wk[w].pc = "l_plan_prog" /\ wk'[w].pc = "l_act"
    \/ wk[w].pc = "l_act_prog" /\ wk'[w].pc = "l_reflect"

\* C28: after cancelRun an in-flight execution starts no further phase: the
\* cancellation is re-read between retrieve, plan, act and reflect, so a
\* phase is not started while the run's status is canceled.
C28_NoPhaseAfterCancel ==
    [][\A w \in WorkerIds :
          (runStatus = "canceled" /\ cn.pc \in {"done", "error"}) => ~StartsNextPhase(w)]_vars

\* C29: after every model call and before the next phase the limits are
\* evaluated on the applied usage: an execution whose tokens reached
\* maxTokensPerTask or whose run cost reached hardCostCapUsd with the plan
\* (or act) call does not start the act (or reflect) call.
C29_LimitsBetweenPhases ==
    [][\A w \in WorkerIds :
          (wk[w].pc \in {"l_plan_prog", "l_act_prog"} /\ wk'[w].pc \in {"l_act", "l_reflect"}) =>
              /\ execs'[wk[w].exec].tokens < cfg.maxTokensPerTask
              /\ runCost' < cfg.hardCostCapUsd]_vars

\* C30: at the end of an iteration the stop reason is decided by the first
\* match: token_limit when the tokens used are at least maxTokensPerTask, else
\* completed when act.done, else completed or error (error exactly when the
\* stop-reason text contains 'error') when the effective shouldContinue is
\* false; otherwise the loop goes on, and an execution that no iteration
\* stops ends with step_limit after exactly maxStepsPerTask iterations.
C30_StopReasonOrder ==
    [][\A w \in WorkerIds :
          (wk[w].pc = "l_end" /\ wk'[w].pc # "l_end") =>
              IF wk[w].tok >= cfg.maxTokensPerTask
              THEN wk'[w].stop = "token_limit" /\ wk'[w].pc = "a_status"
              ELSE IF wk[w].done
              THEN wk'[w].stop = "completed" /\ wk'[w].pc = "a_status"
              ELSE IF ~wk[w].cont
              THEN /\ wk'[w].stop = IF wk[w].reason = "error" THEN "error" ELSE "completed"
                   /\ wk'[w].pc = "a_status"
              ELSE IF wk[w].step < cfg.maxStepsPerTask
              THEN wk'[w].pc = "l_top" /\ wk'[w].step = wk[w].step + 1
              ELSE /\ wk'[w].stop = "step_limit" /\ wk'[w].pc = "a_status"
                   /\ wk[w].step = cfg.maxStepsPerTask
                   /\ execs[wk[w].exec].stepCount = cfg.maxStepsPerTask]_vars

\* an execution that no iteration stopped has ended with step_limit after
\* StepBudget iterations
C30_Witness ==
    \E w \in WorkerIds :
        /\ wk[w].pc = "a_status" /\ wk[w].stop = "step_limit"
        /\ cfg.maxStepsPerTask = StepBudget
        /\ wk[w].step = StepBudget /\ execs[wk[w].exec].stepCount = StepBudget
        /\ ~wk[w].done /\ wk[w].cont

\* the position of a phase within an iteration of the agent loop
PhaseRank(phase) ==
    CASE phase = "retrieve" -> 1
      [] phase = "plan" -> 2
      [] phase = "act" -> 3
      [] phase = "reflect" -> 4

\* C31: the step traces of every execution, in insertion order, have
\* non-decreasing stepIndex within 1..maxStepsPerTask, and within a stepIndex
\* the phases come in the order retrieve, plan, act, reflect, each at most
\* once and none without its predecessors.
C31_StepTraceOrder ==
    \A i \in DOMAIN execs :
        LET st == execs[i].steps
        IN \A k \in DOMAIN st :
              /\ st[k][1] \in 1..cfg.maxStepsPerTask
              /\ k > 1 => st[k - 1][1] <= st[k][1]
              /\ IF PhaseRank(st[k][2]) = 1
                 THEN k = 1 \/ st[k - 1][1] < st[k][1]
                 ELSE /\ k > 1
                      /\ st[k - 1][1] = st[k][1]
                      /\ PhaseRank(st[k - 1][2]) = PhaseRank(st[k][2]) - 1

\* an execution has persisted the four steps of StepBudget iterations
C31_Witness ==
    \E i \in DOMAIN execs :
        /\ Len(execs[i].steps) = 4 * StepBudget
        /\ execs[i].steps[Len(execs[i].steps)] = <<StepBudget, "reflect">>

\* C32: in an iteration whose act step has done = false and that is the first
\* iteration or whose act step returned no citations, the decision persisted
\* with the reflect step has shouldContinue = true, and the loop does not end
\* with completed or error at the end of that iteration: it goes on, or stops
\* with token_limit or step_limit.
C32_ForcedContinue ==
    [][\A w \in WorkerIds :
          (/\ wk[w].pc = "l_end" /\ wk'[w].pc # "l_end"
           /\ ~wk[w].done
           /\ wk[w].step < 2 \/ ~wk[w].cited) =>
              /\ wk[w].cont
              /\ wk'[w].pc = "l_top" \/ wk'[w].stop \in {"token_limit", "step_limit"}]_vars

\* the second iteration of an execution ends with an act step that is not
\* done and has no citations, and the decision says continue
C32_Witness ==
    \E w \in WorkerIds :
        /\ wk[w].pc = "l_end" /\ wk[w].step = 2
        /\ ~wk[w].done /\ ~wk[w].cited /\ wk[w].cont /\ wk[w].reason = "continue"

\* the task executions in progress: created and not yet finalized
RunningExecutions == {i \in DOMAIN execs : execs[i].status = "running"}

\* C33: at any time at most min(executionConcurrency, number of workers) task
\* executions of the run are in progress, and each worker has at most one
\* task execution in progress.
C33_ExecutionConcurrency ==
    /\ Cardinality(RunningExecutions) <= Min2(cfg.executionConcurrency, Len(Workers))
    /\ \A w \in WorkerIds :
          Cardinality({i \in RunningExecutions : execs[i].worker = w}) <= 1

\* with executionConcurrency 2 both workers are inside the agent loop of
\* different tasks
C33_Witness ==
    /\ cfg.executionConcurrency = 2
    /\ Cardinality(RunningExecutions) = 2
    /\ \A w \in WorkerIds : wk[w].pc = "l_plan" /\ execs[wk[w].exec].status = "running"
    /\ wk["w1"].task # wk["w2"].task

\* the workers whose attempt waits for a judge slot or is being evaluated
EvaluationPending == {w \in ActiveWorkers : wk[w].pc \in {"a_judge_wait", "a_judge"}}

\* C34: at most judgeConcurrency judge evaluations are in flight, and judge
\* calls do not consume execution concurrency: a worker whose attempt is
\* waiting for or undergoing evaluation can take the next queued task and
\* start its agent loop.
C34_JudgeDoesNotBlockWorkers ==
    /\ judging <= cfg.judgeConcurrency
    /\ \A w \in EvaluationPending :
          (taskQueue # <<>> /\ ~isRunCanceled(runStatus)) => ENABLED WorkerPop(w)

RECURSIVE StepCount(_)
\* the number of step traces persisted for the executions
StepCount(executions) ==
    IF executions = <<>> THEN 0 ELSE Len(Head(executions).steps) + StepCount(Tail(executions))

\* C35: for every step trace persisted by the agent loop a task.step.created
\* event is appended before the next phase of the execution begins: with one
\* worker activity, whenever a phase starts or an iteration ends there are as
\* many task.step.created events as persisted steps.
C35_StepEventBeforeNextPhase ==
    [][\A w \in WorkerIds :
          (/\ cfg.executionConcurrency = 1
           /\ StartsNextPhase(w) \/ (wk[w].pc = "l_end" /\ wk'[w].pc # "l_end")) =>
              evTypes'["task.step.created"] >= StepCount(execs')]_vars

\* finalizeRun has been called for the run
RunFinalized ==
    orch.pc \in {"ev_canceled", "ev_base", "ev_opt", "ev_err", "ev_failed", "done", "rejected"}

\* C36: every worker activity marks its worker done when its loop exits, and
\* once the run has been finalized no worker has status idle or running and
\* no worker status is written.
C36_WorkersDone ==
    [][/\ \A w \in ActiveWorkers : wk'[w].pc = "w_done" => workerStatus'[w] = "done"
       /\ RunFinalized =>
             /\ workerStatus' = workerStatus
             /\ \A w \in WorkerIds : workerStatus[w] \notin {"idle", "running"}]_vars

\* C37: executeRun terminates with the run in a terminal status: at the step
\* with which executeRun returns or rejects, the run's status is completed,
\* failed or canceled.
C37_ReturnsWithTerminalStatus ==
    [][(~ExecuteRunReturned /\ ExecuteRunReturned') => IsTerminal(runStatus')]_vars

\* C38: once the cancel route has written the canceled status, an execution
\* that is still in progress ends with status skipped and stop reason
\* cancelled, its task becomes skipped, and no evaluation is stored any more.
C38_CanceledExecutionSkipped ==
    [][CancelWritten =>
          /\ evalRows' = evalRows
          /\ \A i \in 1..Len(execs) :
                (execs[i].status = "running" /\ execs'[i].status # "running") =>
                    /\ execs'[i].status = "skipped"
                    /\ execs'[i].stopReason = "cancelled"
                    /\ taskStatus'[execs[i].task] = "skipped"]_vars

\* the terminal event that matches a terminal run status
TerminalEventOf(status) ==
    CASE status = "completed" -> "run.completed"
      [] status = "failed"    -> "run.failed"
      [] OTHER                -> "run.canceled"

\* C39: once executeRun has returned, the cancel route is not in progress and
\* the run's status is terminal, exactly one terminal event was appended and
\* its type matches the status.
C39_OneTerminalEvent ==
    (ExecuteRunReturned /\ cn.pc \notin {"update", "append"} /\ IsTerminal(runStatus)) =>
        /\ evTypes[TerminalEventOf(runStatus)] = 1
        /\ \A type \in TerminalEvents \ {TerminalEventOf(runStatus)} : evTypes[type] = 0

\* C40: whenever executeRun has returned and the run's status is terminal,
\* the run's skill-optimization session, if one was created, has a final
\* status (skipped, completed or error), never not_started or running.
C40_SessionFinal ==
    (ExecuteRunReturned /\ IsTerminal(runStatus)) => session.status \notin {"not_started", "running"}
====
